---------------------------- MODULE Spec2Model ----------------------------
(***************************************************************************)
(* Walletwise: the group-expense settlement ledger of src/db.py.           *)
(*                                                                         *)
(* The ledger is the two SQLite tables group_expenses and                  *)
(* group_expense_shares (with their AUTOINCREMENT counters) and the        *)
(* operations add_group_expense, delete_group_expense,                     *)
(* settle_expense_share, settle_multiple_expenses and the read side        *)
(* (get_user_balance_summary, get_group_expense_statistics,                *)
(* get_group_expenses, get_unsettled_expenses_for_user, get_quick_stats).  *)
(* Beside it: the "Add Group Expense" form of the Group Expenses page,     *)
(* which computes the shares it hands to add_group_expense; the budgets    *)
(* table with set_budget and get_budget; and settle_expense_share run on   *)
(* several connections at once.                                            *)
(*                                                                         *)
(* Money is a Python float (SQLite REAL).  A stored amount is written here *)
(* as the number of cents of the decimal literal the caller passed; where  *)
(* the code does arithmetic on the floats and compares the result against  *)
(* a threshold (the reconciliation gate), the model does that arithmetic   *)
(* in IEEE-754 binary64: literal -> nearest double, + and - rounded to     *)
(* nearest-even on 53 significant bits.                                    *)
(***************************************************************************)
EXTENDS Integers, Sequences, FiniteSets, TLC

---------------------------------------------------------------------------
(***************************************************************************)
(* Bounds of the model.                                                    *)
(***************************************************************************)

\* group expenses ever created (the AUTOINCREMENT counter is capped here)
MaxExpenses == 2

\* longest shares list passed to add_group_expense
MaxShares == 2

\* longest expense_ids list passed to settle_multiple_expenses
MaxBatch == 3

---------------------------------------------------------------------------
(***************************************************************************)
(* IEEE-754 binary64, as far as the ledger uses it.                        *)
(*                                                                         *)
(* A double is [neg, mag] where mag is its magnitude in units of           *)
(* 2^-FracBits, written as a sequence of limbs (digits to the base         *)
(* 2^LimbBits), least significant first, with no leading (high-order)      *)
(* zero; <<>> is zero.  Every double of       *)
(* magnitude at least 2^-12 is a whole number of such units, and so is     *)
(* every sum and difference of two of them.                                *)
(***************************************************************************)

\* significant bits of a binary64 (Python float, SQLite REAL)
SigBits == 53

\* the unit of mag is 2^-FracBits: the last place of a binary64 in
\* [2^-12, 2^-11); 0.01 lies in [2^-7, 2^-6) and a fourth of it in
\* [2^-9, 2^-8)
FracBits == 64

\* mag is written in limbs of LimbBits bits
LimbBits == 15

Base == 2 ^ LimbBits

Max2(a, b) == IF a >= b THEN a ELSE b

Limb(a, i) == IF i >= 1 /\ i <= Len(a) THEN a[i] ELSE 0

\* drop high-order zero limbs
RECURSIVE Trim(_)
Trim(b) ==
    IF b = <<>> THEN <<>>
    ELSE IF b[Len(b)] # 0 THEN b
    ELSE Trim(SubSeq(b, 1, Len(b) - 1))

\* the limbs of a natural number, and the natural number of limbs
RECURSIVE NatLimbs(_)
NatLimbs(n) == IF n = 0 THEN <<>> ELSE <<n % Base>> \o NatLimbs(n \div Base)

RECURSIVE LimbsNat(_)
LimbsNat(a) == IF a = <<>> THEN 0 ELSE a[1] + Base * LimbsNat(Tail(a))

\* a + b on magnitudes (ripple carry)
RECURSIVE AddFrom(_, _, _, _)
AddFrom(a, b, i, carry) ==
    IF i > Max2(Len(a), Len(b))
    THEN (IF carry = 1 THEN <<1>> ELSE <<>>)
    ELSE LET t == Limb(a, i) + Limb(b, i) + carry
         IN  <<t % Base>> \o AddFrom(a, b, i + 1, t \div Base)

MagAdd(a, b) == Trim(AddFrom(a, b, 1, 0))

\* a - b on magnitudes, for a >= b (ripple borrow)
RECURSIVE SubFrom(_, _, _, _)
SubFrom(a, b, i, borrow) ==
    IF i > Len(a)
    THEN <<>>
    ELSE LET t == Limb(a, i) - Limb(b, i) - borrow
         IN  <<t % Base>> \o SubFrom(a, b, i + 1, IF t < 0 THEN 1 ELSE 0)

MagSub(a, b) == Trim(SubFrom(a, b, 1, 0))

\* a < b on magnitudes: the longer is the larger, else the highest
\* differing limb decides
RECURSIVE LessFrom(_, _, _)
LessFrom(a, b, i) ==
    IF i = 0 THEN FALSE
    ELSE IF a[i] # b[i] THEN a[i] < b[i]
    ELSE LessFrom(a, b, i - 1)

MagLess(a, b) ==
    IF Len(a) # Len(b) THEN Len(a) < Len(b) ELSE LessFrom(a, b, Len(a))

\* a times the natural number k < Base
RECURSIVE MulFrom(_, _, _, _)
MulFrom(a, k, i, carry) ==
    IF i > Len(a) THEN NatLimbs(carry)
    ELSE LET t == a[i] * k + carry
         IN  <<t % Base>> \o MulFrom(a, k, i + 1, t \div Base)

MagMulInt(a, k) == Trim(MulFrom(a, k, 1, 0))

\* a divided by the natural number n, 0 < n < Base, limb by limb from the
\* highest: the quotient and the remainder
RECURSIVE DivFrom(_, _, _, _)
DivFrom(a, n, i, rem) ==
    IF i = 0 THEN [q |-> <<>>, rem |-> rem]
    ELSE LET t     == rem * Base + a[i]
             lower == DivFrom(a, n, i - 1, t % n)
         IN  [q |-> lower.q \o <<t \div n>>, rem |-> lower.rem]

TrimQuotient(d) == [q |-> Trim(d.q), rem |-> d.rem]

MagDivInt(a, n) == TrimQuotient(DivFrom(a, n, Len(a), 0))

\* a * 2^s
ShiftLeft(a, s) ==
    IF a = <<>> THEN <<>>
    ELSE [i \in 1..(s \div LimbBits) |-> 0] \o MagMulInt(a, 2 ^ (s % LimbBits))

\* a \div 2^s, and whether bits were shifted out
ShiftedOut(d, low) ==
    [q |-> d.q, sticky |-> d.rem # 0 \/ \E i \in 1..Len(low) : low[i] # 0]

ShiftRight(a, s) ==
    IF s \div LimbBits < Len(a)
    THEN ShiftedOut(MagDivInt(SubSeq(a, s \div LimbBits + 1, Len(a)),
                              2 ^ (s % LimbBits)),
                    SubSeq(a, 1, s \div LimbBits))
    ELSE ShiftedOut([q |-> << >>, rem |-> 0], a)

\* the number of bits of a limb, and of a magnitude
RECURSIVE Width(_)
Width(x) == IF x = 0 THEN 0 ELSE 1 + Width(x \div 2)

BitLen(a) == IF a = <<>> THEN 0 ELSE LimbBits * (Len(a) - 1) + Width(a[Len(a)])

\* round-to-nearest, ties-to-even, to SigBits significant bits.  sticky
\* says that the exact value exceeds mag by a positive amount below one
\* unit.
\* kept are the SigBits highest bits, guard the bit below them, rest says
\* that a bit below the guard is set; d is the number of bits dropped
RoundUpOrDown(kept, guard, rest, d) ==
    ShiftLeft(IF guard /\ (rest \/ kept[1] % 2 = 1)
              THEN MagAdd(kept, <<1>>)
              ELSE kept, d)

\* g is the magnitude shifted right by d - 1 bits
RoundGuarded(g, sticky, d) ==
    RoundUpOrDown(ShiftRight(g.q, 1).q, g.q[1] % 2 = 1, sticky \/ g.sticky, d)

RoundBits(mag, sticky, len) ==
    IF len <= SigBits
    THEN mag
    ELSE RoundGuarded(ShiftRight(mag, len - SigBits - 1), sticky, len - SigBits)

RoundNearestEven(mag, sticky) == RoundBits(mag, sticky, BitLen(mag))

\* the magnitude nearest to an exact quotient
RoundQuotient(d) == RoundNearestEven(d.q, d.rem # 0)

\* float("x.yz"): the double nearest to cents/100
FloatOfCents(cents) ==
    [neg |-> cents < 0,
     mag |-> RoundQuotient(MagDivInt(
                 ShiftLeft(NatLimbs(IF cents < 0 THEN -cents ELSE cents),
                           FracBits), 100))]

FloatZero == [neg |-> FALSE, mag |-> <<>>]

\* x + y
FloatAdd(x, y) ==
    IF x.neg = y.neg
    THEN [neg |-> x.neg, mag |-> RoundNearestEven(MagAdd(x.mag, y.mag), FALSE)]
    ELSE IF MagLess(x.mag, y.mag)
    THEN [neg |-> y.neg, mag |-> RoundNearestEven(MagSub(y.mag, x.mag), FALSE)]
    ELSE IF x.mag = y.mag
    THEN FloatZero
    ELSE [neg |-> x.neg, mag |-> RoundNearestEven(MagSub(x.mag, y.mag), FALSE)]

FloatNeg(x) == IF x.mag = <<>> THEN x ELSE [neg |-> ~x.neg, mag |-> x.mag]

\* x - y
FloatSub(x, y) == FloatAdd(x, FloatNeg(y))

\* abs(x)
FloatAbs(x) == [neg |-> FALSE, mag |-> x.mag]

\* x > y
FloatGreater(x, y) ==
    IF x.neg # y.neg THEN y.neg /\ ~(x.mag = <<>> /\ y.mag = <<>>)
    ELSE IF x.neg THEN MagLess(x.mag, y.mag)
    ELSE MagLess(y.mag, x.mag)

\* sum(...) over a list of floats: Python starts from the int 0 and adds
\* from the left
RECURSIVE FloatSum(_)
FloatSum(amounts) ==
    IF amounts = <<>> THEN FloatZero
    ELSE FloatAdd(FloatSum(SubSeq(amounts, 1, Len(amounts) - 1)),
                  FloatOfCents(amounts[Len(amounts)]))

\* sum(...) over a list of doubles
RECURSIVE FloatSumOf(_)
FloatSumOf(xs) ==
    IF xs = << >> THEN FloatZero
    ELSE FloatAdd(FloatSumOf(SubSeq(xs, 1, Len(xs) - 1)), xs[Len(xs)])

\* x / n for an int n > 0: the exact quotient, taken one limb below the
\* unit, rounded
SignedQuotient(neg, r) ==
    [neg |-> neg /\ r # << >>, mag |-> ShiftRight(r, LimbBits).q]

FloatDivInt(x, n) ==
    SignedQuotient(x.neg, RoundQuotient(MagDivInt(ShiftLeft(x.mag, LimbBits), n)))

\* x * k for an int k >= 0
FloatMulInt(x, k) ==
    IF k = 0 \/ x.mag = << >> THEN FloatZero
    ELSE [neg |-> x.neg, mag |-> RoundNearestEven(MagMulInt(x.mag, k), FALSE)]

\* round(x, 2) in cents: the multiple of 0.01 nearest to the exact value
\* of the double x, of two equally near ones the even one
\* whole cents, whether the half cent below them is there, whether
\* anything below that is
CentsUpOrDown(whole, half, rest) ==
    whole + (IF half /\ (rest \/ whole % 2 = 1) THEN 1 ELSE 0)

\* g is the exact value in half cents
CentsOfHalves(g) ==
    CentsUpOrDown(LimbsNat(ShiftRight(g.q, 1).q),
                  g.q # << >> /\ g.q[1] % 2 = 1, g.sticky)

Signed(neg, c) == IF neg THEN -c ELSE c

RoundCents(x) ==
    Signed(x.neg, CentsOfHalves(ShiftRight(MagMulInt(x.mag, 100), FracBits - 1)))

\* round(x, 2): the double nearest to that multiple of 0.01
FloatRound2(x) == FloatOfCents(RoundCents(x))

---------------------------------------------------------------------------
(***************************************************************************)
(* The tables.                                                             *)
(***************************************************************************)

\* rows of the users table (users are created at sign-up and never deleted)
Users == {1, 2, 3, 4}

\* the users who call the operations of the ledger
Callers == {1, 2}

\* user ids a caller may pass: 5 is the id of no row of users
UserIds == Callers \cup {5}

\* amounts a caller may pass as the total of an expense, in cents
TotalAmounts == {1, 9999, 10000}

\* the share entries {"user_id": u, "amount": a} a caller may pass
ShareEntries ==
    { [user_id |-> 1, amount |-> 6000],
      [user_id |-> 2, amount |-> 4000],
      [user_id |-> 2, amount |-> 6000],
      [user_id |-> 2, amount |-> 3900],
      [user_id |-> 5, amount |-> 4000] }

SeqsUpTo(S, n) == UNION { [1..k -> S] : k \in 0..n }

\* the shares lists a caller may pass
ShareLists == SeqsUpTo(ShareEntries, MaxShares)

\* ids a caller may pass for an expense or a share
ExpenseIds == 1..MaxExpenses
ShareIds == 1..(MaxExpenses * MaxShares)

\* dates are counted in days; two ISO dates (date.isoformat(), compared
\* as TEXT by SQLite) are ordered as their day numbers are
Today == 100

\* the date a caller gives an expense
Dates == {Today}

\* the calls of add_group_expense in a ledger that three users share:
\* user 1 pays for 2 and 3, user 2 pays for 1 and 3 ten days ago, user 1
\* pays for 1 and 3 forty days ago, user 3 records a total of 0 with no
\* shares, and user 1 gives user 2 a share of 0
ThreeUserExpenses ==
    { [amount |-> 10000, payer_id |-> 1, date |-> Today,
       shares |-> << [user_id |-> 2, amount |-> 6000],
                     [user_id |-> 3, amount |-> 4000] >>],
      [amount |-> 10000, payer_id |-> 2, date |-> Today - 10,
       shares |-> << [user_id |-> 1, amount |-> 6000],
                     [user_id |-> 3, amount |-> 4000] >>],
      [amount |-> 10000, payer_id |-> 1, date |-> Today - 40,
       shares |-> << [user_id |-> 1, amount |-> 6000],
                     [user_id |-> 3, amount |-> 4000] >>],
      [amount |-> 0, payer_id |-> 3, date |-> Today, shares |-> << >>],
      [amount |-> 10000, payer_id |-> 1, date |-> Today,
       shares |-> << [user_id |-> 1, amount |-> 10000],
                     [user_id |-> 2, amount |-> 0] >>] }

\* the users of that ledger
ThreeUsers == {1, 2, 3}

\* the days a caller passes to get_group_expense_statistics (the Analytics
\* tab offers 7, 30, 90, 180 and 365; 30 is the default)
StatDays == {7, 30}

\* the (limit, include_settled) a caller passes to get_group_expenses;
\* limit 0 is also the default None ("if limit:" is false for both)
ListOptions ==
    { [limit |-> 0, include_settled |-> TRUE],
      [limit |-> 0, include_settled |-> FALSE] }

\* the limits of get_group_expenses calls that pass one
Limits == {1, 2}

\* the connections that run settle_expense_share at the same time
Connections == {1, 2}

\* SQL NULL, and the value of dt.datetime.now().isoformat()
NULL == "NULL"
Now == "now"

VARIABLES
    group_expenses,         \* id -> row of group_expenses
    group_expense_shares,   \* id -> row of group_expense_shares
    sqlite_sequence,        \* the AUTOINCREMENT counter of each table
    budgets,                \* the rows of budgets, in rowid order
    conns,                  \* connection -> the settle_expense_share call it runs
    form,                   \* the Add Group Expense form of a session
    last                    \* the last call: [op, args, status, ret]

vars == <<group_expenses, group_expense_shares, sqlite_sequence, budgets,
          conns, form, last>>

\* the committed content of the database file
Store ==
    [ group_expenses       |-> group_expenses,
      group_expense_shares |-> group_expense_shares,
      sqlite_sequence      |-> sqlite_sequence ]

EmptyStore ==
    [ group_expenses       |-> << >>,
      group_expense_shares |-> << >>,
      sqlite_sequence      |-> [group_expenses |-> 0, group_expense_shares |-> 0] ]

\* f without the keys in gone
Without(f, gone) == [k \in (DOMAIN f) \ gone |-> f[k]]

\* f with key k bound to row
With(f, k, row) == [j \in (DOMAIN f) \cup {k} |-> IF j = k THEN row ELSE f[j]]

\* the sum of share_amount over a set of share ids
RECURSIVE SumShareAmount(_, _)
SumShareAmount(shares, ids) ==
    IF ids = {} THEN 0
    ELSE LET i == CHOOSE j \in ids : TRUE
         IN  shares[i].share_amount + SumShareAmount(shares, ids \ {i})

\* the sum of amount over a set of expense ids
RECURSIVE SumAmount(_, _)
SumAmount(expenses, ids) ==
    IF ids = {} THEN 0
    ELSE LET i == CHOOSE j \in ids : TRUE
         IN  expenses[i].amount + SumAmount(expenses, ids \ {i})

---------------------------------------------------------------------------
(***************************************************************************)
(* Split validation.                                                       *)
(***************************************************************************)

\* the tolerance 0.01 of the reconciliation gate, in cents
ToleranceCents == 1

AmountsOf(shares) == [i \in 1..Len(shares) |-> shares[i].amount]

\* abs(sum(share["amount"] for share in shares) - amount) > 0.01
SharesNeverMismatch(amount, shares) == FALSE

SharesDoNotMatch(amount, shares) ==
    FloatGreater(FloatAbs(FloatSub(FloatSum(AmountsOf(shares)), FloatOfCents(amount))),
                 FloatOfCents(ToleranceCents))

\* validate_expense_shares(amount, shares), with the default tolerance
validate_expense_shares(amount, shares) ==
    ~FloatGreater(FloatAbs(FloatSub(FloatSum(AmountsOf(shares)), FloatOfCents(amount))),
                  FloatOfCents(ToleranceCents))

\* both predicates on every input of the model, as a table (f @@ g is
\* the function itself, with its values computed)
GateTable ==
    [x \in (TotalAmounts \X ShareLists)
            \cup {<<c.amount, c.shares>> : c \in ThreeUserExpenses} |->
        [mismatch |-> SharesDoNotMatch(x[1], x[2]),
         valid    |-> validate_expense_shares(x[1], x[2])]] @@ << >>

---------------------------------------------------------------------------
(***************************************************************************)
(* add_group_expense.                                                      *)
(*                                                                         *)
(* The connection is in Python's default transaction mode: the first       *)
(* INSERT opens a transaction, the statements that follow work on the      *)
(* uncommitted copy (work), and commit() or rollback() ends it.            *)
(***************************************************************************)

\* conn.rollback(): the database is what was committed before
RollbackKeepsWork(committed, work) == work

Rollback(committed, work) == committed

\* conn.commit(): the work of the transaction becomes the database
Commit(work) == work

\* INSERT INTO group_expenses(...): payer_id REFERENCES users(id); the id
\* is the AUTOINCREMENT counter plus one; is_settled DEFAULT 0, settled_at
\* NULL
InsertExpense(work, amount, payer_id, date) ==
    IF payer_id \notin Users
    THEN [ok |-> FALSE, id |-> 0, work |-> work]
    ELSE LET id == work.sqlite_sequence.group_expenses + 1
             row == [amount |-> amount, payer_id |-> payer_id, date |-> date,
                     is_settled |-> 0, settled_at |-> NULL]
         IN  [ok |-> TRUE, id |-> id,
              work |-> [work EXCEPT
                  !.group_expenses = With(@, id, row),
                  !.sqlite_sequence.group_expenses = id]]

\* INSERT INTO group_expense_shares(...): user_id REFERENCES users(id),
\* group_expense_id REFERENCES group_expenses(id),
\* UNIQUE(group_expense_id, user_id)
InsertShareTwice(work, expense_id, share) ==
    IF \/ share.user_id \notin Users
       \/ expense_id \notin DOMAIN work.group_expenses
    THEN [ok |-> FALSE, work |-> work]
    ELSE LET id == work.sqlite_sequence.group_expense_shares + 1
             row == [group_expense_id |-> expense_id, user_id |-> share.user_id,
                     share_amount |-> share.amount,
                     is_settled |-> 0, settled_at |-> NULL]
         IN  [ok |-> TRUE,
              work |-> [work EXCEPT
                  !.group_expense_shares = With(@, id, row),
                  !.sqlite_sequence.group_expense_shares = id]]

InsertShare(work, expense_id, share) ==
    IF \/ share.user_id \notin Users
       \/ expense_id \notin DOMAIN work.group_expenses
       \/ \E i \in DOMAIN work.group_expense_shares :
             /\ work.group_expense_shares[i].group_expense_id = expense_id
             /\ work.group_expense_shares[i].user_id = share.user_id
    THEN [ok |-> FALSE, work |-> work]
    ELSE LET id == work.sqlite_sequence.group_expense_shares + 1
             row == [group_expense_id |-> expense_id, user_id |-> share.user_id,
                     share_amount |-> share.amount,
                     is_settled |-> 0, settled_at |-> NULL]
         IN  [ok |-> TRUE,
              work |-> [work EXCEPT
                  !.group_expense_shares = With(@, id, row),
                  !.sqlite_sequence.group_expense_shares = id]]

\* for share in shares: INSERT ...; the first failing INSERT raises
RECURSIVE InsertShares(_, _, _, _)
InsertShares(work, expense_id, shares, i) ==
    IF i > Len(shares)
    THEN [ok |-> TRUE, work |-> work]
    ELSE LET r == InsertShare(work, expense_id, shares[i])
         IN  IF r.ok
             THEN InsertShares(r.work, expense_id, shares, i + 1)
             ELSE r

\* the INSERTs of add_group_expense and its commit, or the rollback when
\* one of them raises
InsertExpenseAndShares(store, amount, payer_id, date, shares) ==
    LET e == InsertExpense(store, amount, payer_id, date)
    IN  IF ~e.ok
        THEN [store |-> Rollback(store, e.work),
              status |-> "IntegrityError", ret |-> [expense_id |-> 0]]
        ELSE LET s == InsertShares(e.work, e.id, shares, 1)
             IN  IF ~s.ok
                 THEN [store |-> Rollback(store, s.work),
                       status |-> "IntegrityError", ret |-> [expense_id |-> 0]]
                 ELSE [store |-> Commit(s.work),
                       status |-> "ok", ret |-> [expense_id |-> e.id]]

\* add_group_expense(title, amount, payer_id, category, date, description,
\* shares), title, category and description left out: returns the new id, or raises ValueError (the shares do not
\* reconcile) or sqlite3.IntegrityError (a constraint failed)
add_group_expense(store, amount, payer_id, date, shares) ==
    IF GateTable[amount, shares].mismatch
    THEN [store |-> Rollback(store, store), status |-> "ValueError", ret |-> [expense_id |-> 0]]
    ELSE InsertExpenseAndShares(store, amount, payer_id, date, shares)

---------------------------------------------------------------------------
(***************************************************************************)
(* delete_group_expense.                                                   *)
(***************************************************************************)

\* FOREIGN KEY (group_expense_id) REFERENCES group_expenses(id) ON DELETE
\* CASCADE, with PRAGMA foreign_keys = ON on every connection
CascadeNothing(shares, expense_id) == shares

CascadeDelete(shares, expense_id) ==
    Without(shares, {i \in DOMAIN shares : shares[i].group_expense_id = expense_id})

\* DELETE FROM group_expenses WHERE id = ?
DeleteExpense(store, expense_id) ==
    [store EXCEPT
        !.group_expenses = Without(@, {expense_id}),
        !.group_expense_shares = CascadeDelete(@, expense_id)]

\* delete_group_expense with the ownership check left out
delete_group_expense_unchecked(store, expense_id, payer_id) ==
    [store |-> Commit(DeleteExpense(store, expense_id)), status |-> "ok", ret |-> [bool |-> TRUE]]

\* delete_group_expense(expense_id, payer_id) -> bool
delete_group_expense(store, expense_id, payer_id) ==
    IF \/ expense_id \notin DOMAIN store.group_expenses
       \/ store.group_expenses[expense_id].payer_id # payer_id
    THEN [store |-> store, status |-> "ok", ret |-> [bool |-> FALSE]]
    ELSE [store |-> Commit(DeleteExpense(store, expense_id)),
          status |-> "ok", ret |-> [bool |-> TRUE]]

---------------------------------------------------------------------------
(***************************************************************************)
(* settle_expense_share and settle_multiple_expenses.                      *)
(***************************************************************************)

\* SELECT group_expense_id FROM group_expense_shares
\* WHERE id = ? AND user_id = ?
OwnedShareAnyUser(store, share_id, user_id) ==
    share_id \in DOMAIN store.group_expense_shares

OwnedShare(store, share_id, user_id) ==
    /\ share_id \in DOMAIN store.group_expense_shares
    /\ store.group_expense_shares[share_id].user_id = user_id

\* UPDATE group_expense_shares SET is_settled = 1, settled_at = ?
\* WHERE id = ? AND user_id = ?
MarkShareToggled(work, share_id, user_id) ==
    [work EXCEPT !.group_expense_shares =
        [i \in DOMAIN @ |->
            IF i = share_id /\ @[i].user_id = user_id
            THEN [@[i] EXCEPT !.is_settled = 1 - @, !.settled_at = Now]
            ELSE @[i]]]

MarkShareSettled(work, share_id, user_id) ==
    [work EXCEPT !.group_expense_shares =
        [i \in DOMAIN @ |->
            IF i = share_id /\ @[i].user_id = user_id
            THEN [@[i] EXCEPT !.is_settled = 1, !.settled_at = Now]
            ELSE @[i]]]

\* SELECT COUNT(*) FROM group_expense_shares
\* WHERE group_expense_id = ? AND is_settled = 0
UnsettledCount(work, expense_id) ==
    Cardinality({i \in DOMAIN work.group_expense_shares :
        /\ work.group_expense_shares[i].group_expense_id = expense_id
        /\ work.group_expense_shares[i].is_settled = 0})

\* UPDATE group_expenses SET is_settled = 1, settled_at = ? WHERE id = ?
MarkEveryExpenseSettled(work, expense_id) ==
    [work EXCEPT !.group_expenses =
        [i \in DOMAIN @ |-> [@[i] EXCEPT !.is_settled = 1, !.settled_at = Now]]]

MarkExpenseSettled(work, expense_id) ==
    [work EXCEPT !.group_expenses =
        [i \in DOMAIN @ |->
            IF i = expense_id
            THEN [@[i] EXCEPT !.is_settled = 1, !.settled_at = Now]
            ELSE @[i]]]

\* settle_expense_share(share_id, user_id, method, reference) -> bool
settle_expense_share(store, share_id, user_id) ==
    IF ~OwnedShare(store, share_id, user_id)
    THEN [store |-> store, status |-> "ok", ret |-> [bool |-> FALSE]]
    ELSE LET expense_id == store.group_expense_shares[share_id].group_expense_id
             w1 == MarkShareSettled(store, share_id, user_id)
             w2 == IF UnsettledCount(w1, expense_id) = 0
                   THEN MarkExpenseSettled(w1, expense_id)
                   ELSE w1
         IN  [store |-> Commit(w2), status |-> "ok", ret |-> [bool |-> TRUE]]

\* SELECT id, share_amount FROM group_expense_shares
\* WHERE group_expense_id = ? AND user_id = ? AND is_settled = 0
SelectShareSettledOrNot(store, expense_id, user_id) ==
    {i \in DOMAIN store.group_expense_shares :
        /\ store.group_expense_shares[i].group_expense_id = expense_id
        /\ store.group_expense_shares[i].user_id = user_id}

SelectUnsettledShare(store, expense_id, user_id) ==
    {i \in DOMAIN store.group_expense_shares :
        /\ store.group_expense_shares[i].group_expense_id = expense_id
        /\ store.group_expense_shares[i].user_id = user_id
        /\ store.group_expense_shares[i].is_settled = 0}

\* one turn of "for expense_id in expense_ids", on the summary so far
BatchStepStopsCounting(store, user_id, expense_id, sum) ==
    LET found == SelectUnsettledShare(store, expense_id, user_id)
    IN  IF found = {}
        THEN [store |-> store, sum |-> sum]
        ELSE LET share_id == CHOOSE i \in found : TRUE
                 r == settle_expense_share(store, share_id, user_id)
             IN  [store |-> r.store,
                  sum |-> [sum EXCEPT
                      !.settled_count = @ + 1,
                      !.settled_amount =
                          @ + store.group_expense_shares[share_id].share_amount]]

BatchStep(store, user_id, expense_id, sum) ==
    LET found == SelectUnsettledShare(store, expense_id, user_id)
    IN  IF found = {}
        THEN [store |-> store, sum |-> [sum EXCEPT !.failed_count = @ + 1]]
        ELSE LET share_id == CHOOSE i \in found : TRUE
                 share_amount == store.group_expense_shares[share_id].share_amount
                 r == settle_expense_share(store, share_id, user_id)
             IN  IF r.ret.bool
                 THEN [store |-> r.store,
                       sum |-> [sum EXCEPT !.settled_count = @ + 1,
                                           !.settled_amount = @ + share_amount]]
                 ELSE [store |-> r.store,
                       sum |-> [sum EXCEPT !.failed_count = @ + 1]]

RECURSIVE BatchFrom(_, _, _, _, _)
BatchFrom(store, user_id, expense_ids, i, sum) ==
    IF i > Len(expense_ids)
    THEN [store |-> store, status |-> "ok", ret |-> sum]
    ELSE LET r == BatchStep(store, user_id, expense_ids[i], sum)
         IN  BatchFrom(r.store, user_id, expense_ids, i + 1, r.sum)

\* settle_multiple_expenses(user_id, expense_ids, method, reference)
\*   -> {settled_count, failed_count, settled_amount}
settle_multiple_expenses(store, user_id, expense_ids) ==
    BatchFrom(store, user_id, expense_ids, 1,
              [settled_count |-> 0, failed_count |-> 0, settled_amount |-> 0])

---------------------------------------------------------------------------
(***************************************************************************)
(* get_user_balance_summary.                                               *)
(***************************************************************************)

\* ... WHERE ges.user_id = ? AND ges.is_settled = 0 AND ge.payer_id != ?
OwesSharesSettledToo(store, user_id) ==
    {i \in DOMAIN store.group_expense_shares :
        LET s == store.group_expense_shares[i]
        IN  /\ s.user_id = user_id
            /\ s.group_expense_id \in DOMAIN store.group_expenses
            /\ store.group_expenses[s.group_expense_id].payer_id # user_id
            /\ store.group_expenses[s.group_expense_id].payer_id \in Users}

OwesShares(store, user_id) ==
    {i \in DOMAIN store.group_expense_shares :
        LET s == store.group_expense_shares[i]
        IN  /\ s.user_id = user_id
            /\ s.is_settled = 0
            /\ s.group_expense_id \in DOMAIN store.group_expenses
            /\ store.group_expenses[s.group_expense_id].payer_id # user_id
            /\ store.group_expenses[s.group_expense_id].payer_id \in Users}

\* ... WHERE ge.payer_id = ? AND ges.is_settled = 0 AND ges.user_id != ?
OwedSharesOwnToo(store, user_id) ==
    {i \in DOMAIN store.group_expense_shares :
        LET s == store.group_expense_shares[i]
        IN  /\ s.group_expense_id \in DOMAIN store.group_expenses
            /\ store.group_expenses[s.group_expense_id].payer_id = user_id
            /\ s.is_settled = 0
            /\ s.user_id \in Users}

OwedShares(store, user_id) ==
    {i \in DOMAIN store.group_expense_shares :
        LET s == store.group_expense_shares[i]
        IN  /\ s.group_expense_id \in DOMAIN store.group_expenses
            /\ store.group_expenses[s.group_expense_id].payer_id = user_id
            /\ s.is_settled = 0
            /\ s.user_id # user_id
            /\ s.user_id \in Users}

\* the payer of the expense of a share
PayerOfShare(store, i) ==
    store.group_expenses[store.group_expense_shares[i].group_expense_id].payer_id

\* ... SUM(ges.share_amount) AS total_owed ... GROUP BY ge.payer_id, u.name:
\* one row for each payer, here payer -> total_owed
OwesTo(store, user_id) ==
    LET owes == OwesShares(store, user_id)
    IN  [p \in {PayerOfShare(store, i) : i \in owes} |->
            SumShareAmount(store.group_expense_shares,
                           {i \in owes : PayerOfShare(store, i) = p})]

\* ... SUM(ges.share_amount) AS total_owed_to_user ... GROUP BY ges.user_id,
\* u.name: one row for each debtor, here user -> total_owed_to_user
OwedBy(store, user_id) ==
    LET owed == OwedShares(store, user_id)
    IN  [d \in {store.group_expense_shares[i].user_id : i \in owed} |->
            SumShareAmount(store.group_expense_shares,
                           {i \in owed : store.group_expense_shares[i].user_id = d})]

\* sum(item[...] for item in rows)
RECURSIVE SumRows(_)
SumRows(rows) ==
    IF DOMAIN rows = {} THEN 0
    ELSE LET k == CHOOSE j \in DOMAIN rows : TRUE
         IN  rows[k] + SumRows(Without(rows, {k}))

\* SELECT COALESCE(SUM(amount), 0) FROM group_expenses WHERE payer_id = ?
TotalPaid(store, user_id) ==
    SumAmount(store.group_expenses,
              {i \in DOMAIN store.group_expenses :
                  store.group_expenses[i].payer_id = user_id})

\* ... FROM group_expense_shares ges JOIN group_expenses ge
\* ON ges.group_expense_id = ge.id WHERE ges.user_id = ?
SharesOfUserUnsettled(store, user_id) ==
    {i \in DOMAIN store.group_expense_shares :
        /\ store.group_expense_shares[i].user_id = user_id
        /\ store.group_expense_shares[i].is_settled = 0
        /\ store.group_expense_shares[i].group_expense_id
               \in DOMAIN store.group_expenses}

SharesOfUser(store, user_id) ==
    {i \in DOMAIN store.group_expense_shares :
        /\ store.group_expense_shares[i].user_id = user_id
        /\ store.group_expense_shares[i].group_expense_id
               \in DOMAIN store.group_expenses}

\* SELECT COALESCE(SUM(ges.share_amount), 0) ...
TotalShare(store, user_id) ==
    SumShareAmount(store.group_expense_shares, SharesOfUser(store, user_id))

\* get_user_balance_summary(user_id)
get_user_balance_summary(store, user_id) ==
    LET owes_to == OwesTo(store, user_id)
        total_owes == SumRows(owes_to)
        owed_by == OwedBy(store, user_id)
        total_owed_to_user == SumRows(owed_by)
    IN  [total_paid |-> TotalPaid(store, user_id),
         total_share |-> TotalShare(store, user_id),
         total_owes |-> total_owes,
         total_owed_to_user |-> total_owed_to_user,
         net_balance |-> total_owed_to_user - total_owes,
         owes_to |-> owes_to,
         owed_by |-> owed_by]

---------------------------------------------------------------------------
(***************************************************************************)
(* The other readers: get_group_expense_statistics, get_group_expenses,    *)
(* get_unsettled_expenses_for_user and get_quick_stats.  They run SELECT   *)
(* statements only and close the connection without a commit.              *)
(***************************************************************************)

\* the share id of the row that a LEFT JOIN gives an expense without shares
NoShare == 0

\* group_expenses ge LEFT JOIN group_expense_shares ges
\*     ON ge.id = ges.group_expense_id
\* as pairs <<ge.id, ges.id>>
LeftJoinShares(store) ==
    {<<store.group_expense_shares[i].group_expense_id, i>> :
        i \in {j \in DOMAIN store.group_expense_shares :
                  store.group_expense_shares[j].group_expense_id
                      \in DOMAIN store.group_expenses}}
    \cup {<<e, NoShare>> :
            e \in {f \in DOMAIN store.group_expenses :
                      \A i \in DOMAIN store.group_expense_shares :
                          store.group_expense_shares[i].group_expense_id # f}}

\* ge.payer_id = ? OR ges.user_id = ?
InvolvesUser(store, row, user_id) ==
    \/ store.group_expenses[row[1]].payer_id = user_id
    \/ /\ row[2] # NoShare
       /\ store.group_expense_shares[row[2]].user_id = user_id

\* SUM(ge.amount) over rows of the join
RECURSIVE SumJoinedAmount(_, _)
SumJoinedAmount(store, rows) ==
    IF rows = {} THEN 0
    ELSE LET r == CHOOSE x \in rows : TRUE
         IN  store.group_expenses[r[1]].amount + SumJoinedAmount(store, rows \ {r})

\* SUM(CASE WHEN ge.payer_id = ? THEN ge.amount ELSE 0 END) over rows
RECURSIVE SumJoinedPaid(_, _, _)
SumJoinedPaid(store, rows, user_id) ==
    IF rows = {} THEN 0
    ELSE LET r == CHOOSE x \in rows : TRUE
         IN  (IF store.group_expenses[r[1]].payer_id = user_id
              THEN store.group_expenses[r[1]].amount ELSE 0)
             + SumJoinedPaid(store, rows \ {r}, user_id)

\* the rows of the first query of get_group_expense_statistics:
\* WHERE (ge.payer_id = ? OR ges.user_id = ?) AND ge.date >= ?
RecentRows(store, user_id, start_date) ==
    {r \in LeftJoinShares(store) :
        /\ InvolvesUser(store, r, user_id)
        /\ store.group_expenses[r[1]].date >= start_date}

\* get_group_expense_statistics(user_id, days), without the categories
get_group_expense_statistics(store, user_id, days) ==
    LET start_date == Today - days
        rows == RecentRows(store, user_id, start_date)
    IN  [store |-> store, status |-> "ok",
         ret |-> [recent_expenses_count |-> Cardinality({r[1] : r \in rows}),
                  recent_expenses_total |-> SumJoinedAmount(store, rows),
                  period_days |-> days]]

\* ORDER BY ge.date DESC, ge.id DESC on a set of expense ids
RECURSIVE NewestFirst(_, _)
NewestFirst(store, ids) ==
    IF ids = {} THEN << >>
    ELSE LET m == CHOOSE e \in ids : \A f \in ids :
                      \/ store.group_expenses[e].date > store.group_expenses[f].date
                      \/ /\ store.group_expenses[e].date = store.group_expenses[f].date
                         /\ e >= f
         IN  <<m>> \o NewestFirst(store, ids \ {m})

\* LIMIT n on the rows of the expenses in order: the expenses that have a
\* row among the first n
RECURSIVE WithinLimit(_, _, _)
WithinLimit(ordered, rows, n) ==
    IF ordered = << >> \/ n <= 0 THEN << >>
    ELSE <<ordered[1]>>
         \o WithinLimit(Tail(ordered), rows,
                        n - Cardinality({r \in rows : r[1] = ordered[1]}))

\* get_group_expenses(user_id, limit, include_settled): the expenses in
\* the order of the result, without the share details
get_group_expenses(store, user_id, limit, include_settled) ==
    LET rows == {r \in LeftJoinShares(store) :
                    /\ InvolvesUser(store, r, user_id)
                    /\ include_settled
                       \/ store.group_expenses[r[1]].is_settled = 0
                       \/ /\ r[2] # NoShare
                          /\ store.group_expense_shares[r[2]].is_settled = 0}
        ordered == NewestFirst(store, {r[1] : r \in rows})
        shown == IF limit = 0 THEN ordered
                 ELSE WithinLimit(ordered, rows, limit)
    IN  [store |-> store, status |-> "ok",
         ret |-> [expenses |->
            [k \in 1..Len(shown) |->
                [id |-> shown[k],
                 amount |-> store.group_expenses[shown[k]].amount,
                 payer_id |-> store.group_expenses[shown[k]].payer_id,
                 date |-> store.group_expenses[shown[k]].date,
                 is_settled |-> store.group_expenses[shown[k]].is_settled]]]]

\* a reader that stamps the shares it lists
get_unsettled_expenses_stamping(store, user_id) ==
    [store |-> [store EXCEPT !.group_expense_shares =
                   [i \in DOMAIN @ |->
                       IF i \in OwesShares(store, user_id)
                       THEN [@[i] EXCEPT !.settled_at = Now]
                       ELSE @[i]]],
     status |-> "ok",
     ret |-> [rows |-> {}]]

\* get_unsettled_expenses_for_user(user_id): one row for each share the
\* user owes, here as a set (ORDER BY ge.date DESC lists them)
get_unsettled_expenses_for_user(store, user_id) ==
    [store |-> store, status |-> "ok",
     ret |-> [rows |->
        {[expense_id |-> store.group_expense_shares[i].group_expense_id,
          total_amount |->
              store.group_expenses[store.group_expense_shares[i].group_expense_id].amount,
          payer_id |-> PayerOfShare(store, i),
          share_id |-> i,
          share_amount |-> store.group_expense_shares[i].share_amount] :
            i \in OwesShares(store, user_id)}]]

\* get_quick_stats(user_id)
get_quick_stats(store, user_id) ==
    LET balance_summary == get_user_balance_summary(store, user_id)
        recent == RecentRows(store, user_id, Today - 30)
        lifetime == {r \in LeftJoinShares(store) : InvolvesUser(store, r, user_id)}
    IN  [store |-> store, status |-> "ok",
         ret |-> [recent_expenses |-> Cardinality({r[1] : r \in recent}),
                  pending_to_pay |-> balance_summary.total_owes,
                  pending_to_receive |-> balance_summary.total_owed_to_user,
                  net_balance |-> balance_summary.net_balance,
                  total_lifetime_expenses |-> Cardinality({r[1] : r \in lifetime}),
                  total_lifetime_paid |-> SumJoinedPaid(store, lifetime, user_id)]]

---------------------------------------------------------------------------
(***************************************************************************)
(* The "Add Group Expense" form of the Group Expenses page.  Its amounts   *)
(* are the doubles themselves, and so are the amounts of the rows it       *)
(* creates.                                                                *)
(***************************************************************************)

\* the largest small amount entered in the form, in cents
MaxFormCents == 3

\* expenses created through the form
MaxFormExpenses == 1

\* st.session_state.auth["user_id"]
FormUser == 1

\* available_users, in the order of get_all_users()
AvailableUsers == Users \ {FormUser}

\* st.number_input("Total Amount"), in cents
FormAmounts == (0..MaxFormCents) \cup {10000}

\* st.multiselect(options=available_users)
Selections ==
    {s \in SeqsUpTo(AvailableUsers, Cardinality(AvailableUsers)) :
        \A i \in 1..Len(s) : \A j \in 1..Len(s) : i < j => s[i] < s[j]}

\* st.number_input("Amount for ..."), min_value=0.0, max_value=amount, in
\* cents
CustomAmounts(amount) == {c \in {0, 1, amount} : c <= amount}

\* what the session has entered when it presses the button
FormInputs ==
    {[amount |-> a, selected_users |-> s, split_type |-> "Equal Split",
      custom |-> << >>] : a \in FormAmounts, s \in Selections}
    \cup UNION {
        {[amount |-> a, selected_users |-> s, split_type |-> "Custom Amounts",
          custom |-> c] : c \in [1..Len(s) -> CustomAmounts(a)]}
        : a \in FormAmounts, s \in Selections}

\* the "Equal Split" branch
EqualShares(amount, selected_users, total_people, share_per_person) ==
    [shares |-> [i \in 1..Len(selected_users) |->
                    [user_id |-> selected_users[i],
                     amount |-> share_per_person]],
     current_user_share |->
         FloatSub(amount, FloatMulInt(share_per_person, total_people - 1))]

EqualSplit(amount, selected_users) ==
    EqualShares(amount, selected_users, Len(selected_users) + 1,
                FloatRound2(FloatDivInt(amount, Len(selected_users) + 1)))

\* the "Custom Amounts" branch: the amounts above zero, in the order of the
\* selection
RECURSIVE CustomShares(_, _, _)
CustomShares(selected_users, custom, i) ==
    IF i > Len(selected_users) THEN << >>
    ELSE (IF custom[i] > 0
          THEN <<[user_id |-> selected_users[i],
                  amount |-> FloatOfCents(custom[i])]>>
          ELSE << >>) \o CustomShares(selected_users, custom, i + 1)

FloatAmountsOf(shares) == [i \in 1..Len(shares) |-> shares[i].amount]

CustomRemainder(amount, shares) ==
    [shares |-> shares,
     current_user_share |->
         FloatSub(amount, FloatSumOf(FloatAmountsOf(shares)))]

CustomSplit(amount, selected_users, custom) ==
    CustomRemainder(amount, CustomShares(selected_users, custom, 1))

\* shares and current_user_share when the script reaches the button
\* "Add current user's share"
WithOwnShare(split) ==
    [shares |-> IF FloatGreater(split.current_user_share, FloatZero)
                THEN Append(split.shares,
                            [user_id |-> FormUser,
                             amount |-> split.current_user_share])
                ELSE split.shares,
     current_user_share |-> split.current_user_share]

SplitOf(input, amount) ==
    IF input.selected_users # << >> /\ FloatGreater(amount, FloatZero)
    THEN (IF input.split_type = "Equal Split"
          THEN EqualSplit(amount, input.selected_users)
          ELSE CustomSplit(amount, input.selected_users, input.custom))
    ELSE [shares |-> << >>, current_user_share |-> FloatZero]

SplitDetails(input) == WithOwnShare(SplitOf(input, FloatOfCents(input.amount)))

\* abs(sum(s["amount"] for s in shares) - amount) > 0.01, in the form and
\* again in add_group_expense
FloatSharesDoNotMatch(amount, shares) ==
    FloatGreater(FloatAbs(FloatSub(FloatSumOf(FloatAmountsOf(shares)), amount)),
                 FloatOfCents(ToleranceCents))

\* the validation of the submitted form, the title taken as entered
FormValidation(input, amount, mismatch) ==
    IF ~FloatGreater(amount, FloatZero)
    THEN "Amount must be greater than 0."
    ELSE IF AvailableUsers = {}
    THEN "No other users available to share expenses with."
    ELSE IF input.selected_users = << >>
    THEN "Please select at least one person to share with."
    ELSE IF mismatch
    THEN "Share amounts must equal the total expense amount."
    ELSE "valid"

\* what the script has computed of an input when it reaches the call of
\* db.add_group_expense; mismatch is the outcome of the comparison made
\* by the form and again by add_group_expense
Validated(input, amount, d, mismatch) ==
    [amount |-> amount,
     shares |-> d.shares,
     current_user_share |-> d.current_user_share,
     validation |-> FormValidation(input, amount, mismatch),
     mismatch |-> mismatch]

Compared(input, amount, d) ==
    Validated(input, amount, d, FloatSharesDoNotMatch(amount, d.shares))

FormTable ==
    [input \in FormInputs |->
        Compared(input, FloatOfCents(input.amount), SplitDetails(input))]

\* db.add_group_expense called by the form: amount and the amounts of the
\* shares are doubles
add_group_expense_of_form(store, input, payer_id, date) ==
    IF FormTable[input].mismatch
    THEN [store |-> Rollback(store, store), status |-> "ValueError",
          ret |-> [expense_id |-> 0]]
    ELSE InsertExpenseAndShares(store, FormTable[input].amount, payer_id, date,
                                FormTable[input].shares)

---------------------------------------------------------------------------
(***************************************************************************)
(* Budgets.  The table is the sequence of its rows in the order of their   *)
(* ids: rows are never deleted and the id is AUTOINCREMENT.                *)
(***************************************************************************)

\* rows of the budgets table
MaxBudgets == 3

\* year_month, category and amount (in cents) of the calls
YearMonths == {"2024-01", "2024-02"}

Categories == {NULL, "Food"}

BudgetAmounts == {10000, 20000}

\* UNIQUE(user_id, year_month, category): the rows an INSERT conflicts
\* with; a NULL category is distinct from every category, NULL included
ConflictingBudgets(rows, user_id, year_month, category) ==
    {i \in 1..Len(rows) :
        /\ category # NULL
        /\ rows[i].user_id = user_id
        /\ rows[i].year_month = year_month
        /\ rows[i].category = category}

\* set_budget(user_id, year_month, category, amount): INSERT ... ON
\* CONFLICT(user_id, year_month, category) DO UPDATE SET amount; user_id
\* REFERENCES users(id)
set_budget(rows, user_id, year_month, category, amount) ==
    LET conflicts == ConflictingBudgets(rows, user_id, year_month, category)
    IN  IF user_id \notin Users
        THEN [budgets |-> rows, status |-> "IntegrityError"]
        ELSE IF conflicts # {}
        THEN [budgets |-> [i \in 1..Len(rows) |->
                              IF i \in conflicts
                              THEN [rows[i] EXCEPT !.amount = amount]
                              ELSE rows[i]],
              status |-> "ok"]
        ELSE [budgets |-> Append(rows, [user_id |-> user_id,
                                         year_month |-> year_month,
                                         category |-> category,
                                         amount |-> amount]),
              status |-> "ok"]

\* WHERE user_id = ? AND year_month = ? AND category IS ?
MatchingBudgets(rows, user_id, year_month, category) ==
    {i \in 1..Len(rows) :
        /\ rows[i].user_id = user_id
        /\ rows[i].year_month = year_month
        /\ rows[i].category = category}

\* get_budget(user_id, year_month, category): what fetchone() may give.
\* The SELECT has no ORDER BY, so it is one of the matching rows (SQLite
\* 3.40 gives the one of the lowest id), or None
get_budget(rows, user_id, year_month, category) ==
    LET matching == MatchingBudgets(rows, user_id, year_month, category)
    IN  IF matching = {}
        THEN {[found |-> FALSE, amount |-> 0]}
        ELSE {[found |-> TRUE, amount |-> rows[i].amount] : i \in matching}

---------------------------------------------------------------------------
(***************************************************************************)
(* The ledger as a state machine: one action per call.                     *)
(***************************************************************************)

\* a connection that runs no call
IdleConnection ==
    [pc |-> "idle", share_id |-> 0, user_id |-> 0, expense_id |-> 0,
     work |-> EmptyStore, overlapped |-> FALSE, ret |-> FALSE]

\* no call in flight on any connection
NoCalls == [c \in Connections |-> IdleConnection]

\* the form before the session has entered anything
EmptyForm == [split_type |-> "none"]

\* init_db() on a fresh file: empty tables
Init ==
    /\ group_expenses = EmptyStore.group_expenses
    /\ group_expense_shares = EmptyStore.group_expense_shares
    /\ sqlite_sequence = EmptyStore.sqlite_sequence
    /\ budgets = << >>
    /\ conns = NoCalls
    /\ form = EmptyForm
    /\ last = [op |-> "init_db", args |-> [none |-> TRUE], status |-> "ok",
               ret |-> [none |-> TRUE]]

Becomes(store) ==
    /\ group_expenses' = store.group_expenses
    /\ group_expense_shares' = store.group_expense_shares
    /\ sqlite_sequence' = store.sqlite_sequence
    /\ UNCHANGED <<budgets, conns, form>>

AddGroupExpense ==
    /\ sqlite_sequence.group_expenses < MaxExpenses
    /\ \E amount \in TotalAmounts, payer_id \in UserIds, date \in Dates,
          shares \in ShareLists :
          LET r == add_group_expense(Store, amount, payer_id, date, shares)
          IN  /\ Becomes(r.store)
              /\ last' = [op |-> "add_group_expense",
                          args |-> [amount |-> amount, payer_id |-> payer_id,
                                    date |-> date, shares |-> shares],
                          status |-> r.status, ret |-> r.ret]

DeleteGroupExpense ==
    \E expense_id \in ExpenseIds, payer_id \in UserIds :
        LET r == delete_group_expense(Store, expense_id, payer_id)
        IN  /\ Becomes(r.store)
            /\ last' = [op |-> "delete_group_expense",
                        args |-> [expense_id |-> expense_id, payer_id |-> payer_id],
                        status |-> r.status, ret |-> r.ret]

SettleExpenseShare ==
    \E share_id \in ShareIds, user_id \in UserIds :
        LET r == settle_expense_share(Store, share_id, user_id)
        IN  /\ Becomes(r.store)
            /\ last' = [op |-> "settle_expense_share",
                        args |-> [share_id |-> share_id, user_id |-> user_id],
                        status |-> r.status, ret |-> r.ret]

SettleMultipleExpenses ==
    \E user_id \in Callers, expense_ids \in SeqsUpTo(ExpenseIds, MaxBatch) :
        LET r == settle_multiple_expenses(Store, user_id, expense_ids)
        IN  /\ Becomes(r.store)
            /\ last' = [op |-> "settle_multiple_expenses",
                        args |-> [user_id |-> user_id, expense_ids |-> expense_ids],
                        status |-> r.status, ret |-> r.ret]

GetUserBalanceSummary ==
    \E user_id \in Callers :
        /\ UNCHANGED <<group_expenses, group_expense_shares, sqlite_sequence>>
        /\ UNCHANGED <<budgets, conns, form>>
        /\ last' = [op |-> "get_user_balance_summary",
                    args |-> [user_id |-> user_id],
                    status |-> "ok",
                    ret |-> get_user_balance_summary(Store, user_id)]

GetGroupExpenseStatistics ==
    \E user_id \in Callers, days \in StatDays :
        LET r == get_group_expense_statistics(Store, user_id, days)
        IN  /\ Becomes(r.store)
            /\ last' = [op |-> "get_group_expense_statistics",
                        args |-> [user_id |-> user_id, days |-> days],
                        status |-> r.status, ret |-> r.ret]

GetGroupExpenses ==
    \E user_id \in Callers, o \in ListOptions :
        LET r == get_group_expenses(Store, user_id, o.limit, o.include_settled)
        IN  /\ Becomes(r.store)
            /\ last' = [op |-> "get_group_expenses",
                        args |-> [user_id |-> user_id, options |-> o],
                        status |-> r.status, ret |-> r.ret]

GetUnsettledExpensesForUser ==
    \E user_id \in Callers :
        LET r == get_unsettled_expenses_for_user(Store, user_id)
        IN  /\ Becomes(r.store)
            /\ last' = [op |-> "get_unsettled_expenses_for_user",
                        args |-> [user_id |-> user_id],
                        status |-> r.status, ret |-> r.ret]

GetQuickStats ==
    \E user_id \in Callers :
        LET r == get_quick_stats(Store, user_id)
        IN  /\ Becomes(r.store)
            /\ last' = [op |-> "get_quick_stats",
                        args |-> [user_id |-> user_id],
                        status |-> r.status, ret |-> r.ret]

Next ==
    \/ AddGroupExpense
    \/ DeleteGroupExpense
    \/ SettleExpenseShare
    \/ SettleMultipleExpenses
    \/ GetUserBalanceSummary
    \/ GetGroupExpenseStatistics
    \/ GetGroupExpenses
    \/ GetUnsettledExpensesForUser
    \/ GetQuickStats

Spec == Init /\ [][Next]_vars

---------------------------------------------------------------------------
(***************************************************************************)
(* The same ledger shared by three users, with expenses of different       *)
(* dates.                                                                  *)
(***************************************************************************)

AddGroupExpenseOfThree ==
    /\ sqlite_sequence.group_expenses < MaxExpenses
    /\ \E c \in ThreeUserExpenses :
          LET r == add_group_expense(Store, c.amount, c.payer_id, c.date, c.shares)
          IN  /\ Becomes(r.store)
              /\ last' = [op |-> "add_group_expense", args |-> c,
                          status |-> r.status, ret |-> r.ret]

SettleExpenseShareOfThree ==
    \E share_id \in ShareIds, user_id \in ThreeUsers :
        LET r == settle_expense_share(Store, share_id, user_id)
        IN  /\ Becomes(r.store)
            /\ last' = [op |-> "settle_expense_share",
                        args |-> [share_id |-> share_id, user_id |-> user_id],
                        status |-> r.status, ret |-> r.ret]

GetUserBalanceSummaryOfThree ==
    \E user_id \in ThreeUsers :
        /\ UNCHANGED <<group_expenses, group_expense_shares, sqlite_sequence>>
        /\ UNCHANGED <<budgets, conns, form>>
        /\ last' = [op |-> "get_user_balance_summary",
                    args |-> [user_id |-> user_id],
                    status |-> "ok",
                    ret |-> get_user_balance_summary(Store, user_id)]

GetGroupExpenseStatisticsOfThree ==
    \E user_id \in ThreeUsers, days \in StatDays :
        LET r == get_group_expense_statistics(Store, user_id, days)
        IN  /\ Becomes(r.store)
            /\ last' = [op |-> "get_group_expense_statistics",
                        args |-> [user_id |-> user_id, days |-> days],
                        status |-> r.status, ret |-> r.ret]

GetGroupExpensesOfThree ==
    \E user_id \in ThreeUsers, limit \in Limits :
        LET r == get_group_expenses(Store, user_id, limit, TRUE)
        IN  /\ Becomes(r.store)
            /\ last' = [op |-> "get_group_expenses",
                        args |-> [user_id |-> user_id,
                                  options |-> [limit |-> limit,
                                               include_settled |-> TRUE]],
                        status |-> r.status, ret |-> r.ret]

NextThree ==
    \/ AddGroupExpenseOfThree
    \/ SettleExpenseShareOfThree
    \/ GetUserBalanceSummaryOfThree
    \/ GetGroupExpenseStatisticsOfThree
    \/ GetGroupExpensesOfThree

SpecThree == Init /\ [][NextThree]_vars

---------------------------------------------------------------------------
(***************************************************************************)
(* The ledger filled through the "Add Group Expense" form.                 *)
(***************************************************************************)

\* the button "Create Group Expense": the split, the validation and, when
\* it passes, db.add_group_expense for the user of the session with
\* today's date
SubmitAddGroupExpenseForm ==
    /\ sqlite_sequence.group_expenses < MaxFormExpenses
    /\ \E input \in FormInputs :
          LET d == FormTable[input]
              r == IF d.validation = "valid"
                   THEN add_group_expense_of_form(Store, input, FormUser, Today)
                   ELSE [store |-> Store, status |-> d.validation,
                         ret |-> [expense_id |-> 0]]
          IN  /\ group_expenses' = r.store.group_expenses
              /\ group_expense_shares' = r.store.group_expense_shares
              /\ sqlite_sequence' = r.store.sqlite_sequence
              /\ form' = [split_type |-> input.split_type,
                          amount |-> input.amount,
                          selected_users |-> input.selected_users,
                          custom |-> input.custom,
                          shares |-> d.shares,
                          current_user_share |-> d.current_user_share,
                          message |-> IF r.status = "ok" THEN "created"
                                      ELSE r.status]
              /\ last' = [op |-> "tab_add", args |-> input,
                          status |-> r.status, ret |-> r.ret]
              /\ UNCHANGED <<budgets, conns>>

NextForm == SubmitAddGroupExpenseForm

SpecForm == Init /\ [][NextForm]_vars

---------------------------------------------------------------------------
(***************************************************************************)
(* The budgets as a state machine.                                         *)
(***************************************************************************)

BudgetCall(op, user_id, year_month, category, amount, status, ret) ==
    last' = [op |-> op,
             args |-> [user_id |-> user_id, year_month |-> year_month,
                       category |-> category, amount |-> amount],
             status |-> status, ret |-> ret]

SetBudget ==
    \E user_id \in UserIds, year_month \in YearMonths,
       category \in Categories, amount \in BudgetAmounts :
        LET r == set_budget(budgets, user_id, year_month, category, amount)
        IN  /\ Len(r.budgets) <= MaxBudgets
            /\ budgets' = r.budgets
            /\ BudgetCall("set_budget", user_id, year_month, category, amount,
                          r.status, [found |-> FALSE, amount |-> 0])
            /\ UNCHANGED <<group_expenses, group_expense_shares,
                           sqlite_sequence, conns, form>>

GetBudget ==
    \E user_id \in UserIds, year_month \in YearMonths,
       category \in Categories :
        \E ret \in get_budget(budgets, user_id, year_month, category) :
            /\ BudgetCall("get_budget", user_id, year_month, category, 0,
                          "ok", ret)
            /\ UNCHANGED <<group_expenses, group_expense_shares,
                           sqlite_sequence, budgets, conns, form>>

\* the "Save Budgets" button of the Budgets page: the overall budget is
\* saved with category None, then the category budget when a category is
\* entered
SaveBudgets ==
    \E user_id \in Callers, year_month \in YearMonths,
       overall_budget \in BudgetAmounts, cat_name \in {"", "Food"},
       cat_budget \in BudgetAmounts :
        LET overall == set_budget(budgets, user_id, year_month, NULL,
                                  overall_budget)
            r == IF cat_name # ""
                 THEN set_budget(overall.budgets, user_id, year_month,
                                 cat_name, cat_budget)
                 ELSE overall
        IN  /\ Len(r.budgets) <= MaxBudgets
            /\ budgets' = r.budgets
            /\ BudgetCall("set_budget", user_id, year_month,
                          IF cat_name # "" THEN cat_name ELSE NULL,
                          IF cat_name # "" THEN cat_budget ELSE overall_budget,
                          r.status, [found |-> FALSE, amount |-> 0])
            /\ UNCHANGED <<group_expenses, group_expense_shares,
                           sqlite_sequence, conns, form>>

NextBudget ==
    \/ SetBudget
    \/ GetBudget
    \/ SaveBudgets

SpecBudget == Init /\ [][NextBudget]_vars

---------------------------------------------------------------------------
(***************************************************************************)
(* settle_expense_share called on several connections at once.             *)
(*                                                                         *)
(* Every call opens its own connection (_connect), in the sqlite3 module's *)
(* default transaction mode and with its default timeout of 5 seconds.     *)
(* The ownership SELECT runs outside a transaction and reads what is       *)
(* committed.  The UPDATE of the share opens the transaction and takes     *)
(* the write lock of the database file, which one connection holds at a    *)
(* time; it is released by commit() or rollback().  A connection that      *)
(* finds the lock taken waits for it, and raises sqlite3.OperationalError  *)
(* (database is locked) when the timeout passes first.                     *)
(***************************************************************************)

\* expenses of the ledger the connections work on
MaxConcExpenses == 1

\* the connections that hold the write lock: between their UPDATE and
\* their commit()
InTransaction == {"count", "commit"}

WriteLockAlwaysFree(c) == TRUE

WriteLockFree(c) ==
    \A other \in Connections \ {c} : conns[other].pc \notin InTransaction

\* a call is in flight on another connection
Overlaps(c) ==
    \E other \in Connections \ {c} :
        conns[other].pc \in {"update", "count", "commit"}

ConnectionStep(c, conn) ==
    /\ conns' = [conns EXCEPT ![c] = conn]
    /\ UNCHANGED <<budgets, form, last>>

\* the call and its SELECT group_expense_id ... WHERE id = ? AND user_id = ?
\* on what is committed; return False when there is no such row
SelectOwnedShare(c) ==
    /\ conns[c].pc = "idle"
    /\ \E share_id \in ShareIds, user_id \in ThreeUsers :
          /\ ConnectionStep(c,
                IF OwnedShare(Store, share_id, user_id)
                THEN [pc |-> "update", share_id |-> share_id,
                      user_id |-> user_id,
                      expense_id |-> group_expense_shares[share_id].group_expense_id,
                      work |-> EmptyStore, overlapped |-> Overlaps(c),
                      ret |-> FALSE]
                ELSE [pc |-> "done", share_id |-> share_id,
                      user_id |-> user_id, expense_id |-> 0,
                      work |-> EmptyStore, overlapped |-> Overlaps(c),
                      ret |-> FALSE])
          /\ UNCHANGED <<group_expenses, group_expense_shares, sqlite_sequence>>

\* UPDATE group_expense_shares SET is_settled = 1 ...: with the write
\* lock, on what is committed by then
UpdateShare(c) ==
    /\ conns[c].pc = "update"
    /\ WriteLockFree(c)
    /\ ConnectionStep(c, [conns[c] EXCEPT
            !.pc = "count",
            !.work = MarkShareSettled(Store, conns[c].share_id, conns[c].user_id)])
    /\ UNCHANGED <<group_expenses, group_expense_shares, sqlite_sequence>>

\* the UPDATE has waited for the write lock for the whole timeout:
\* sqlite3.OperationalError, conn.rollback(), return False
UpdateTimesOut(c) ==
    /\ conns[c].pc = "update"
    /\ ~WriteLockFree(c)
    /\ ConnectionStep(c, [conns[c] EXCEPT !.pc = "done", !.ret = FALSE])
    /\ UNCHANGED <<group_expenses, group_expense_shares, sqlite_sequence>>

\* SELECT COUNT(*) ... AND is_settled = 0 inside the transaction, and the
\* UPDATE of the expense when the count is 0
CountAndCascade(c) ==
    /\ conns[c].pc = "count"
    /\ ConnectionStep(c, [conns[c] EXCEPT
            !.pc = "commit",
            !.work = IF UnsettledCount(conns[c].work, conns[c].expense_id) = 0
                     THEN MarkExpenseSettled(conns[c].work, conns[c].expense_id)
                     ELSE conns[c].work])
    /\ UNCHANGED <<group_expenses, group_expense_shares, sqlite_sequence>>

\* conn.commit(); return True
CommitSettlement(c) ==
    /\ conns[c].pc = "commit"
    /\ group_expenses' = Commit(conns[c].work).group_expenses
    /\ group_expense_shares' = Commit(conns[c].work).group_expense_shares
    /\ sqlite_sequence' = Commit(conns[c].work).sqlite_sequence
    /\ ConnectionStep(c, [conns[c] EXCEPT !.pc = "done", !.ret = TRUE])

\* conn.close(), after the caller has seen the result
CloseConnection(c) ==
    /\ conns[c].pc = "done"
    /\ ConnectionStep(c, IdleConnection)
    /\ UNCHANGED <<group_expenses, group_expense_shares, sqlite_sequence>>

\* add_group_expense on a connection of its own: its transaction runs
\* while no other connection holds the write lock
AddGroupExpenseBetween ==
    /\ sqlite_sequence.group_expenses < MaxConcExpenses
    /\ \A c \in Connections : conns[c].pc \notin InTransaction
    /\ \E c \in ThreeUserExpenses :
          LET r == add_group_expense(Store, c.amount, c.payer_id, c.date, c.shares)
          IN  /\ Becomes(r.store)
              /\ last' = [op |-> "add_group_expense", args |-> c,
                          status |-> r.status, ret |-> r.ret]

NextConc ==
    \/ AddGroupExpenseBetween
    \/ \E c \in Connections : SelectOwnedShare(c)
    \/ \E c \in Connections : UpdateShare(c)
    \/ \E c \in Connections : UpdateTimesOut(c)
    \/ \E c \in Connections : CountAndCascade(c)
    \/ \E c \in Connections : CommitSettlement(c)
    \/ \E c \in Connections : CloseConnection(c)

SpecConc == Init /\ [][NextConc]_vars

\* delete_group_expense on a connection of its own: its DELETE and its
\* commit() run while no other connection holds the write lock, also
\* between the ownership SELECT and the UPDATE of a settle_expense_share
DeleteGroupExpenseBetween ==
    /\ \A c \in Connections : conns[c].pc \notin InTransaction
    /\ \E expense_id \in ExpenseIds, payer_id \in ThreeUsers :
          LET r == delete_group_expense(Store, expense_id, payer_id)
          IN  /\ Becomes(r.store)
              /\ last' = [op |-> "delete_group_expense",
                          args |-> [expense_id |-> expense_id,
                                    payer_id |-> payer_id],
                          status |-> r.status, ret |-> r.ret]

NextConcDelete ==
    \/ NextConc
    \/ DeleteGroupExpenseBetween

SpecConcDelete == Init /\ [][NextConcDelete]_vars

---------------------------------------------------------------------------
(***************************************************************************)
(* The ledger used through the page: expenses as the Add Expense form      *)
(* creates them (with at least one share) and the Settle Up tab, which     *)
(* offers a user the shares that get_unsettled_expenses_for_user lists.    *)
(***************************************************************************)

AddExpenseWithShares ==
    /\ sqlite_sequence.group_expenses < MaxExpenses
    /\ \E c \in {x \in ThreeUserExpenses : x.shares # << >>} :
          LET r == add_group_expense(Store, c.amount, c.payer_id, c.date, c.shares)
          IN  /\ Becomes(r.store)
              /\ last' = [op |-> "add_group_expense", args |-> c,
                          status |-> r.status, ret |-> r.ret]

\* the button "Settle" of one row of the list
SettleListedShare(user_id) ==
    \E row \in get_unsettled_expenses_for_user(Store, user_id).ret.rows :
        LET r == settle_expense_share(Store, row.share_id, user_id)
        IN  /\ Becomes(r.store)
            /\ last' = [op |-> "settle_expense_share",
                        args |-> [share_id |-> row.share_id, user_id |-> user_id],
                        status |-> r.status, ret |-> r.ret]

\* the button "Settle All Pending Expenses": the expense ids of the list,
\* in its order
SettleAllListed(user_id) ==
    LET rows == get_unsettled_expenses_for_user(Store, user_id).ret.rows
        expense_ids == NewestFirst(Store, {row.expense_id : row \in rows})
    IN  /\ rows # {}
        /\ LET r == settle_multiple_expenses(Store, user_id, expense_ids)
           IN  /\ Becomes(r.store)
               /\ last' = [op |-> "settle_multiple_expenses",
                           args |-> [user_id |-> user_id,
                                     expense_ids |-> expense_ids],
                           status |-> r.status, ret |-> r.ret]

\* a user presses one of the buttons of the Settle Up tab
SettleUp ==
    \E user_id \in ThreeUsers :
        \/ SettleListedShare(user_id)
        \/ SettleAllListed(user_id)

NextSettleUp ==
    \/ AddExpenseWithShares
    \/ SettleUp

\* the users keep settling what the tab lists for them
SpecSettleUp == Init /\ [][NextSettleUp]_vars /\ WF_vars(SettleUp)


---------------------------------------------------------------------------
(***************************************************************************)
(* Properties of the ledger.                                               *)
(***************************************************************************)

\* the shares of an expense
SharesOfExpense(expense_id) ==
    {i \in DOMAIN group_expense_shares :
        group_expense_shares[i].group_expense_id = expense_id}

\* the exact (decimal) sum of a shares list, in cents
RECURSIVE CentsSum(_)
CentsSum(shares) ==
    IF shares = <<>> THEN 0
    ELSE shares[1].amount + CentsSum(Tail(shares))

AbsDiff(a, b) == IF a >= b THEN a - b ELSE b - a

\* C1: in every reachable state each stored group expense has
\* is_settled = 1 if and only if every one of its shares has
\* is_settled = 1, expenses stored with no shares included.
C1_CascadeInvariant ==
    \A e \in DOMAIN group_expenses :
        (group_expenses[e].is_settled = 1)
            <=> (\A i \in SharesOfExpense(e) : group_expense_shares[i].is_settled = 1)

\* C2: add_group_expense raises the validation error exactly when the sum
\* of the share amounts differs from the total by more than 0.01 (a
\* difference of exactly 0.01 is accepted), and exactly when
\* validate_expense_shares(amount, shares) is false.
C2_GateIsTheTolerance ==
    last.op = "add_group_expense" =>
        /\ (last.status = "ValueError")
               <=> (AbsDiff(CentsSum(last.args.shares), last.args.amount) > ToleranceCents)
        /\ (last.status = "ValueError")
               <=> ~GateTable[last.args.amount, last.args.shares].valid

\* C3: add_group_expense is all-or-nothing: a call that raises leaves the
\* database as it was before the call (no expense row, no share row, no
\* counter moved); a call that returns has added exactly the expense and
\* one share row for every given share.
C3_StepAllOrNothing ==
    last'.op = "add_group_expense" =>
        IF last'.status = "ok"
        THEN LET id     == last'.ret.expense_id
                 shares == last'.args.shares
                 new    == (DOMAIN group_expense_shares') \ (DOMAIN group_expense_shares)
             IN  /\ DOMAIN group_expenses' = (DOMAIN group_expenses) \cup {id}
                 /\ id \notin DOMAIN group_expenses
                 /\ group_expenses'[id].amount = last'.args.amount
                 /\ group_expenses'[id].payer_id = last'.args.payer_id
                 /\ \A e \in DOMAIN group_expenses : group_expenses'[e] = group_expenses[e]
                 /\ \A i \in DOMAIN group_expense_shares :
                        /\ i \in DOMAIN group_expense_shares'
                        /\ group_expense_shares'[i] = group_expense_shares[i]
                 /\ Cardinality(new) = Len(shares)
                 /\ \A k \in 1..Len(shares) :
                        \E i \in new :
                            /\ group_expense_shares'[i].group_expense_id = id
                            /\ group_expense_shares'[i].user_id = shares[k].user_id
                            /\ group_expense_shares'[i].share_amount = shares[k].amount
        ELSE /\ group_expenses' = group_expenses
             /\ group_expense_shares' = group_expense_shares
             /\ sqlite_sequence' = sqlite_sequence

C3_AllOrNothing == [][C3_StepAllOrNothing]_vars

\* C3 happens: a call that passed the gate and wrote the expense and a
\* first share failed on its second share (the same user twice), with an
\* expense already stored.
C3_Witness ==
    /\ last.op = "add_group_expense"
    /\ last.status = "IntegrityError"
    /\ last.args.payer_id \in Users
    /\ Len(last.args.shares) = 2
    /\ last.args.shares[1].user_id = last.args.shares[2].user_id
    /\ DOMAIN group_expenses # {}

\* C4: settle_expense_share on a share that does not exist or that another
\* user owns returns false and changes no share and no expense.
C4_StepNotOwner ==
    (/\ last'.op = "settle_expense_share"
     /\ \/ last'.args.share_id \notin DOMAIN group_expense_shares
        \/ group_expense_shares[last'.args.share_id].user_id # last'.args.user_id)
    => /\ last'.ret.bool = FALSE
       /\ group_expenses' = group_expenses
       /\ group_expense_shares' = group_expense_shares

C4_NotOwnerSettlesNothing == [][C4_StepNotOwner]_vars

\* C4 happens: the payer of an expense called settle_expense_share on
\* another participant's unsettled share, the last unsettled one.
C4_Witness ==
    /\ last.op = "settle_expense_share"
    /\ last.ret.bool = FALSE
    /\ last.args.share_id \in DOMAIN group_expense_shares
    /\ LET s == group_expense_shares[last.args.share_id]
       IN  /\ s.user_id # last.args.user_id
           /\ s.is_settled = 0
           /\ group_expenses[s.group_expense_id].payer_id = last.args.user_id
           /\ UnsettledCount(Store, s.group_expense_id) = 1

\* C5: delete_group_expense by a user who is not the payer of the (stored)
\* expense returns false without raising and leaves the expense and all
\* shares as they were.
C5_StepNotPayer ==
    (/\ last'.op = "delete_group_expense"
     /\ last'.args.expense_id \in DOMAIN group_expenses
     /\ group_expenses[last'.args.expense_id].payer_id # last'.args.payer_id)
    => /\ last'.ret.bool = FALSE
       /\ last'.status = "ok"
       /\ group_expenses' = group_expenses
       /\ group_expense_shares' = group_expense_shares

C5_NotPayerDeletesNothing == [][C5_StepNotPayer]_vars

\* C5 happens: a participant who is not the payer called delete on an
\* expense with a settled and an unsettled share.
C5_Witness ==
    /\ last.op = "delete_group_expense"
    /\ last.ret.bool = FALSE
    /\ last.args.expense_id \in DOMAIN group_expenses
    /\ group_expenses[last.args.expense_id].payer_id # last.args.payer_id
    /\ \E i, j \in SharesOfExpense(last.args.expense_id) :
          /\ group_expense_shares[i].user_id = last.args.payer_id
          /\ group_expense_shares[i].is_settled = 1
          /\ group_expense_shares[j].is_settled = 0

\* C6: delete_group_expense by the payer returns true and removes the
\* expense and every share of it (and nothing else), and in every
\* reachable state every share refers to a stored expense.
NoOrphanShares ==
    \A i \in DOMAIN group_expense_shares :
        group_expense_shares[i].group_expense_id \in DOMAIN group_expenses

C6_StepPayerDeletes ==
    (/\ last'.op = "delete_group_expense"
     /\ last'.args.expense_id \in DOMAIN group_expenses
     /\ group_expenses[last'.args.expense_id].payer_id = last'.args.payer_id)
    => LET id == last'.args.expense_id
       IN  /\ last'.ret.bool = TRUE
           /\ group_expenses' = Without(group_expenses, {id})
           /\ group_expense_shares' = Without(group_expense_shares, SharesOfExpense(id))

C6_DeleteCascades == []NoOrphanShares /\ [][C6_StepPayerDeletes]_vars

\* C6 happens: the payer deleted an expense that had shares, while another
\* expense with shares stays.
C6_Witness ==
    /\ last.op = "delete_group_expense"
    /\ last.ret.bool = TRUE
    /\ last.args.expense_id \notin DOMAIN group_expenses
    /\ sqlite_sequence.group_expense_shares = 4
    /\ Cardinality(DOMAIN group_expense_shares) = 2

\* C7: delete_group_expense of an id that is not stored (deleted before,
\* or never created) returns false without raising and leaves the
\* database as it was.
C7_StepDeleteMissing ==
    (/\ last'.op = "delete_group_expense"
     /\ last'.args.expense_id \notin DOMAIN group_expenses)
    => /\ last'.ret.bool = FALSE
       /\ last'.status = "ok"
       /\ group_expenses' = group_expenses
       /\ group_expense_shares' = group_expense_shares
       /\ sqlite_sequence' = sqlite_sequence

C7_DeleteMissingIsNoOp == [][C7_StepDeleteMissing]_vars

\* C7 happens: delete was called on the id of an expense that had been
\* created and deleted before.
C7_Witness ==
    /\ last.op = "delete_group_expense"
    /\ last.ret.bool = FALSE
    /\ last.args.expense_id \notin DOMAIN group_expenses
    /\ last.args.expense_id <= sqlite_sequence.group_expenses

\* C8: with users A and B and a single expense of 100 paid by A in which B
\* has a share of 40: while that share is unsettled A is owed 40 and B
\* owes 40; right after B settles it both are 0 and the expense is
\* settled.
C8_BalanceSymmetry ==
    \A a \in Users, b \in Users, e \in DOMAIN group_expenses,
       i \in DOMAIN group_expense_shares :
        (/\ a # b
         /\ DOMAIN group_expenses = {e}
         /\ group_expenses[e].payer_id = a
         /\ group_expenses[e].amount = 10000
         /\ group_expense_shares[i].group_expense_id = e
         /\ group_expense_shares[i].user_id = b
         /\ group_expense_shares[i].share_amount = 4000)
        => /\ group_expense_shares[i].is_settled = 0 =>
                /\ get_user_balance_summary(Store, a).total_owed_to_user = 4000
                /\ get_user_balance_summary(Store, b).total_owes = 4000
           /\ (/\ last.op = "settle_expense_share"
               /\ last.args = [share_id |-> i, user_id |-> b]
               /\ last.ret.bool = TRUE) =>
                /\ get_user_balance_summary(Store, a).total_owed_to_user = 0
                /\ get_user_balance_summary(Store, b).total_owes = 0
                /\ group_expenses[e].is_settled = 1

\* the positions of expense_ids at which the user has, when the call
\* starts, no unsettled share on the expense, or whose id stands at an
\* earlier position too
FailingPositions(user_id, expense_ids) ==
    {k \in 1..Len(expense_ids) :
        \/ ~\E i \in DOMAIN group_expense_shares :
              /\ group_expense_shares[i].group_expense_id = expense_ids[k]
              /\ group_expense_shares[i].user_id = user_id
              /\ group_expense_shares[i].is_settled = 0
        \/ \E j \in 1..(k - 1) : expense_ids[j] = expense_ids[k]}

\* C9: settle_multiple_expenses handles every id of its input:
\* settled_count + failed_count is the number of ids, and failed_count
\* counts one for each id on which the user has no share or only a
\* settled share, repeated ids included.
C9_StepBatchCounts ==
    last'.op = "settle_multiple_expenses" =>
        LET ids == last'.args.expense_ids
        IN  /\ last'.ret.settled_count + last'.ret.failed_count = Len(ids)
            /\ last'.ret.failed_count
                   = Cardinality(FailingPositions(last'.args.user_id, ids))

C9_BatchCountsEveryId == [][C9_StepBatchCounts]_vars

\* C9 happens: a batch of three ids with a repeated id and an id on which
\* the user has no share settled something and failed on the rest.
C9_Witness ==
    /\ last.op = "settle_multiple_expenses"
    /\ Len(last.args.expense_ids) = 3
    /\ last.args.expense_ids[1] = last.args.expense_ids[2]
    /\ last.args.expense_ids[3] # last.args.expense_ids[1]
    /\ last.ret.settled_count = 1
    /\ last.ret.failed_count = 2

\* the shares that the step settles
NewlySettled ==
    {i \in DOMAIN group_expense_shares :
        /\ group_expense_shares[i].is_settled = 0
        /\ i \in DOMAIN group_expense_shares'
        /\ group_expense_shares'[i].is_settled = 1}

\* C10: the summary of settle_multiple_expenses reports what the call
\* did: settled_count is the number of shares the call moved from
\* unsettled to settled, settled_amount the sum of their amounts.
C10_StepBatchSummary ==
    last'.op = "settle_multiple_expenses" =>
        /\ last'.ret.settled_count = Cardinality(NewlySettled)
        /\ last'.ret.settled_amount = SumShareAmount(group_expense_shares, NewlySettled)

C10_BatchSummaryIsWhatItDid == [][C10_StepBatchSummary]_vars

\* C10 happens: three ids, one of them without an unsettled share of the
\* user when its turn comes: two settled, one failed, and the amount of
\* the two settled shares (40 + 40).
C10_Witness ==
    /\ last.op = "settle_multiple_expenses"
    /\ Len(last.args.expense_ids) = 3
    /\ last.ret = [settled_count |-> 2, failed_count |-> 1, settled_amount |-> 8000]

\* C11: settlement is one-way: no step moves a stored share or a stored
\* expense from is_settled = 1 back to 0; a settled row stays settled for
\* as long as it exists (ids are never given to another row).
C11_StepOneWay ==
    /\ \A i \in (DOMAIN group_expense_shares) \cap (DOMAIN group_expense_shares') :
           group_expense_shares[i].is_settled = 1
               => group_expense_shares'[i].is_settled = 1
    /\ \A e \in (DOMAIN group_expenses) \cap (DOMAIN group_expenses') :
           group_expenses[e].is_settled = 1 => group_expenses'[e].is_settled = 1

C11_SettlementIsOneWay == [][C11_StepOneWay]_vars

\* C11 happens: a batch settlement was run on a settled expense on which
\* the caller's own share is settled already, and left both settled.
C11_Witness ==
    /\ last.op = "settle_multiple_expenses"
    /\ Len(last.args.expense_ids) = 1
    /\ last.ret.failed_count = 1
    /\ LET e == last.args.expense_ids[1]
       IN  /\ e \in DOMAIN group_expenses
           /\ group_expenses[e].is_settled = 1
           /\ \E i \in SharesOfExpense(e) :
                 /\ group_expense_shares[i].user_id = last.args.user_id
                 /\ group_expense_shares[i].is_settled = 1

\* C12: in every reachable state the share amounts of each stored expense
\* sum to its total within 0.01; no step changes a stored amount, moves a
\* share to another expense, or adds or removes a share of an expense that
\* is stored before and after the step.
C12_Reconciled ==
    \A e \in DOMAIN group_expenses :
        AbsDiff(SumShareAmount(group_expense_shares, SharesOfExpense(e)),
                group_expenses[e].amount) <= ToleranceCents

C12_StepAmountsFrozen ==
    /\ \A e \in (DOMAIN group_expenses) \cap (DOMAIN group_expenses') :
           group_expenses'[e].amount = group_expenses[e].amount
    /\ \A i \in (DOMAIN group_expense_shares) \cap (DOMAIN group_expense_shares') :
           /\ group_expense_shares'[i].share_amount = group_expense_shares[i].share_amount
           /\ group_expense_shares'[i].group_expense_id
                  = group_expense_shares[i].group_expense_id
    /\ \A i \in (DOMAIN group_expense_shares) \ (DOMAIN group_expense_shares') :
           group_expense_shares[i].group_expense_id \notin DOMAIN group_expenses'
    /\ \A i \in (DOMAIN group_expense_shares') \ (DOMAIN group_expense_shares) :
           group_expense_shares'[i].group_expense_id \notin DOMAIN group_expenses

C12_SharesReconcile == []C12_Reconciled /\ [][C12_StepAmountsFrozen]_vars

\* C12 happens: an expense whose shares differ from its total by exactly
\* 0.01 is stored next to an expense of 100 with shares of 60 and 40, one
\* of them just settled.
C12_Witness ==
    /\ last.op = "settle_expense_share"
    /\ last.ret.bool = TRUE
    /\ \E e, f \in DOMAIN group_expenses :
          /\ AbsDiff(SumShareAmount(group_expense_shares, SharesOfExpense(e)),
                     group_expenses[e].amount) = ToleranceCents
          /\ group_expenses[f].amount = 10000
          /\ Cardinality(SharesOfExpense(f)) = 2
          /\ \E i \in SharesOfExpense(f) : group_expense_shares[i].is_settled = 1
          /\ \E i \in SharesOfExpense(f) : group_expense_shares[i].is_settled = 0

\* the unsettled shares of a user on expenses that another user paid
UnsettledDebts(user_id) ==
    {i \in DOMAIN group_expense_shares :
        /\ group_expense_shares[i].user_id = user_id
        /\ group_expense_shares[i].is_settled = 0
        /\ group_expenses[group_expense_shares[i].group_expense_id].payer_id # user_id}

\* C13: the total_owes that get_user_balance_summary(u) returns is the sum
\* of the amounts of exactly the unsettled shares of u on expenses paid by
\* someone else; owes_to has one entry for each payer of such a share, the
\* sum of u's unsettled shares on that payer's expenses, and its entries
\* sum to total_owes.
C13_TotalOwes ==
    last.op = "get_user_balance_summary" =>
        LET u == last.args.user_id
            debts == UnsettledDebts(u)
        IN  /\ last.ret.total_owes = SumShareAmount(group_expense_shares, debts)
            /\ DOMAIN last.ret.owes_to = {PayerOfShare(Store, i) : i \in debts}
            /\ \A p \in DOMAIN last.ret.owes_to :
                   last.ret.owes_to[p]
                       = SumShareAmount(group_expense_shares,
                             {i \in debts : PayerOfShare(Store, i) = p})
            /\ SumRows(last.ret.owes_to) = last.ret.total_owes

\* C13 happens: the summary of a user who owes two different payers.
C13_Witness ==
    /\ last.op = "get_user_balance_summary"
    /\ Cardinality(DOMAIN last.ret.owes_to) = 2
    /\ last.ret.total_owes > 0

\* the unsettled shares of other users on the expenses a user paid
UnsettledCredits(user_id) ==
    {i \in DOMAIN group_expense_shares :
        /\ group_expense_shares[i].user_id # user_id
        /\ group_expense_shares[i].is_settled = 0
        /\ group_expenses[group_expense_shares[i].group_expense_id].payer_id = user_id}

\* C14: the total_owed_to_user that get_user_balance_summary(u) returns is
\* the sum of the amounts of exactly the unsettled shares of other users
\* on expenses u paid (u's own shares count nothing); owed_by has one
\* entry for each such debtor and its entries sum to total_owed_to_user.
C14_TotalOwedToUser ==
    last.op = "get_user_balance_summary" =>
        LET u == last.args.user_id
            credits == UnsettledCredits(u)
        IN  /\ last.ret.total_owed_to_user
                   = SumShareAmount(group_expense_shares, credits)
            /\ DOMAIN last.ret.owed_by
                   = {group_expense_shares[i].user_id : i \in credits}
            /\ \A d \in DOMAIN last.ret.owed_by :
                   last.ret.owed_by[d]
                       = SumShareAmount(group_expense_shares,
                             {i \in credits : group_expense_shares[i].user_id = d})
            /\ SumRows(last.ret.owed_by) = last.ret.total_owed_to_user

\* C14 happens: the summary of a payer who is owed by two different users
\* and who holds an unsettled share of their own on an expense they paid.
C14_Witness ==
    /\ last.op = "get_user_balance_summary"
    /\ Cardinality(DOMAIN last.ret.owed_by) = 2
    /\ \E i \in DOMAIN group_expense_shares :
          /\ group_expense_shares[i].user_id = last.args.user_id
          /\ group_expense_shares[i].is_settled = 0
          /\ PayerOfShare(Store, i) = last.args.user_id

\* the expenses dated within the window in which the user is payer or has
\* a share
RecentExpensesOf(user_id, days) ==
    {e \in DOMAIN group_expenses :
        /\ group_expenses[e].date >= Today - days
        /\ \/ group_expenses[e].payer_id = user_id
           \/ \E i \in SharesOfExpense(e) : group_expense_shares[i].user_id = user_id}

\* C15: get_group_expense_statistics(user, days) counts each expense of
\* the window that involves the user once, and recent_expenses_total is
\* the sum of the totals of exactly the counted expenses, each once.
C15_TotalOfCountedExpenses ==
    last.op = "get_group_expense_statistics" =>
        LET counted == RecentExpensesOf(last.args.user_id, last.args.days)
        IN  /\ last.ret.recent_expenses_count = Cardinality(counted)
            /\ last.ret.recent_expenses_total = SumAmount(group_expenses, counted)

\* C16: add_group_expense with a total that is not positive, or with a
\* share that is not positive, raises the validation error, and every
\* stored expense has a positive total and every stored share a positive
\* amount.
C16_PositiveAmounts ==
    /\ (/\ last.op = "add_group_expense"
        /\ \/ last.args.amount <= 0
           \/ \E k \in 1..Len(last.args.shares) : last.args.shares[k].amount <= 0)
       => last.status = "ValueError"
    /\ \A e \in DOMAIN group_expenses : group_expenses[e].amount > 0
    /\ \A i \in DOMAIN group_expense_shares : group_expense_shares[i].share_amount > 0


\* C17: an expense created through the form with an equal split of the
\* total T among n participants (the n-1 selected users and the user of
\* the session) gives each selected user round(T/n, 2) and the user of the
\* session the remainder T - round(T/n, 2)*(n-1), and the shares handed to
\* add_group_expense sum exactly to T.
C17_EqualSplitSumsToTotal ==
    (form.split_type = "Equal Split" /\ form.message = "created") =>
        LET T   == FloatOfCents(form.amount)
            n   == Len(form.selected_users) + 1
            per == FloatRound2(FloatDivInt(T, n))
        IN  /\ \A i \in 1..(n - 1) :
                   form.shares[i] = [user_id |-> form.selected_users[i],
                                     amount |-> per]
            /\ form.current_user_share = FloatSub(T, FloatMulInt(per, n - 1))
            /\ FloatSumOf(FloatAmountsOf(form.shares)) = T


\* the read operations of the ledger
ReadOperations ==
    {"get_user_balance_summary", "get_group_expense_statistics",
     "get_group_expenses", "get_unsettled_expenses_for_user",
     "get_quick_stats"}

\* C18: a call of get_user_balance_summary, get_group_expense_statistics,
\* get_group_expenses, get_unsettled_expenses_for_user or get_quick_stats
\* leaves the ledger as it was: every expense and share, with its amounts,
\* settlement flag and timestamp, and the id counters.
C18_StepReadOnly ==
    last'.op \in ReadOperations =>
        /\ group_expenses' = group_expenses
        /\ group_expense_shares' = group_expense_shares
        /\ sqlite_sequence' = sqlite_sequence

C18_ReadsLeaveLedgerUnchanged == [][C18_StepReadOnly]_vars

\* get_unsettled_expenses_for_user has listed a share of a ledger that also
\* holds a settled share
C18_Witness ==
    /\ last.op = "get_unsettled_expenses_for_user"
    /\ last.ret.rows # {}
    /\ \E i \in DOMAIN group_expense_shares :
          group_expense_shares[i].is_settled = 1


\* C19: saving a budget overwrites the previous one of its key (user,
\* year-month, category), the overall budget of category NULL included:
\* after a set_budget call, get_budget for its key gives the amount of that
\* call.  Since a set_budget call changes no row of another key, get_budget
\* then gives the amount of the most recent set_budget of every key.
C19_SavedBudgetIsReturned ==
    (last.op = "set_budget" /\ last.status = "ok") =>
        get_budget(budgets, last.args.user_id, last.args.year_month,
                   last.args.category)
            = {[found |-> TRUE, amount |-> last.args.amount]}


\* C20: under every interleaving of settle_expense_share calls on
\* different connections, what is committed never holds an expense (with
\* shares) whose shares are all settled while the expense is not, nor an
\* expense that is settled while one of its shares is not; and the share of
\* a call that has returned True is settled, so that when the last two
\* unsettled shares of an expense are settled by two calls at once, the
\* expense is settled after both have returned True.
C20_ConcurrentSettlesKeepCascade ==
    /\ \A e \in DOMAIN group_expenses :
          SharesOfExpense(e) # {} =>
              (group_expenses[e].is_settled = 1
                  <=> \A i \in SharesOfExpense(e) :
                          group_expense_shares[i].is_settled = 1)
    /\ \A c \in Connections :
          (conns[c].pc = "done" /\ conns[c].ret) =>
              group_expense_shares[conns[c].share_id].is_settled = 1

\* two calls by different users on the two shares of one expense have both
\* returned True, the second having started while the first was in flight,
\* and the expense is settled
C20_Witness ==
    /\ conns[1].pc = "done" /\ conns[1].ret
    /\ conns[2].pc = "done" /\ conns[2].ret
    /\ conns[2].overlapped
    /\ conns[1].user_id # conns[2].user_id
    /\ conns[1].share_id # conns[2].share_id
    /\ conns[1].expense_id = conns[2].expense_id
    /\ SharesOfExpense(conns[1].expense_id) = {conns[1].share_id, conns[2].share_id}
    /\ group_expenses[conns[1].expense_id].is_settled = 1


\* the users of a shares list are all different
DistinctUsers(shares) ==
    \A j \in 1..Len(shares) : \A k \in 1..Len(shares) :
        shares[j].user_id = shares[k].user_id => j = k

\* at most one share for each (group expense, user)
C21_OneSharePerUser ==
    \A i \in DOMAIN group_expense_shares : \A j \in DOMAIN group_expense_shares :
        (/\ group_expense_shares[i].group_expense_id
                = group_expense_shares[j].group_expense_id
         /\ group_expense_shares[i].user_id = group_expense_shares[j].user_id)
            => i = j

C21_StepSameUserTwice ==
    (last'.op = "add_group_expense" /\ ~DistinctUsers(last'.args.shares)) =>
        /\ last'.status # "ok"
        /\ group_expenses' = group_expenses
        /\ group_expense_shares' = group_expense_shares
        /\ sqlite_sequence' = sqlite_sequence

\* C21: in every state of the ledger no two shares have the same group
\* expense and the same user, and an add_group_expense call whose shares
\* list names a user twice fails and leaves the tables as they were.
C21_UniqueShares == []C21_OneSharePerUser /\ [][C21_StepSameUserTwice]_vars

\* a call whose list names user 2 twice, with amounts that pass the gate,
\* has failed on a ledger that already holds an expense with a share of
\* user 2
C21_Witness ==
    /\ last.op = "add_group_expense"
    /\ last.status = "IntegrityError"
    /\ last.args.payer_id \in Users
    /\ Len(last.args.shares) = 2
    /\ last.args.shares[1].user_id = 2
    /\ last.args.shares[2].user_id = 2
    /\ ~GateTable[last.args.amount, last.args.shares].mismatch
    /\ \E i \in DOMAIN group_expense_shares : group_expense_shares[i].user_id = 2


\* C22: total_paid and total_share of the balance summary count settled
\* and unsettled items alike: a step of settle_expense_share or
\* settle_multiple_expenses changes them for no user, and a step that
\* changes one of them is the creation or the deletion of an expense.
C22_StepTotalsKeep ==
    LET changed ==
            IF Store' = Store THEN {}
            ELSE {u \in Users :
                     \/ TotalPaid(Store, u) # TotalPaid(Store', u)
                     \/ TotalShare(Store, u) # TotalShare(Store', u)}
    IN  /\ last'.op \in {"settle_expense_share", "settle_multiple_expenses"}
               => changed = {}
        /\ changed # {}
               => last'.op \in {"add_group_expense", "delete_group_expense"}

C22_SettlementKeepsPaidAndShare == [][C22_StepTotalsKeep]_vars

\* a user who has a share and a user who has paid, after that share was
\* settled
C22_Witness ==
    /\ last.op = "settle_expense_share"
    /\ last.ret.bool
    /\ TotalShare(Store, last.args.user_id) > 0
    /\ \E u \in Users : TotalPaid(Store, u) > 0


\* the expenses that involve a user: the user paid or holds a share
ExpensesInvolving(user_id) ==
    {e \in DOMAIN group_expenses :
        \/ group_expenses[e].payer_id = user_id
        \/ \E i \in SharesOfExpense(e) : group_expense_shares[i].user_id = user_id}

\* C23: get_group_expenses(user, limit=L) returns the L most recent
\* expenses involving the user, by date and then id, newest first, when
\* there are at least L, and all of them otherwise, however many shares
\* each expense has.
C23_LimitCountsExpenses ==
    (last.op = "get_group_expenses" /\ last.args.options.limit > 0) =>
        LET involving == NewestFirst(Store, ExpensesInvolving(last.args.user_id))
            L         == last.args.options.limit
            n         == IF Len(involving) >= L THEN L ELSE Len(involving)
        IN  [k \in 1..Len(last.ret.expenses) |-> last.ret.expenses[k].id]
                = SubSeq(involving, 1, n)


\* the sum of a field of the balance summary over a set of users
RECURSIVE SumOfSummaries(_, _)
SumOfSummaries(users, field) ==
    IF users = {} THEN 0
    ELSE LET u == CHOOSE x \in users : TRUE
         IN  get_user_balance_summary(Store, u)[field]
                 + SumOfSummaries(users \ {u}, field)

C25_EveryExpenseGetsSettled ==
    \A e \in ExpenseIds :
        (e \in DOMAIN group_expenses)
            ~> (e \in DOMAIN group_expenses /\ group_expenses[e].is_settled = 1)


\* total_owes and total_owed_to_user of the balance summary
TotalOwes(store, user_id) == SumRows(OwesTo(store, user_id))

TotalOwedToUser(store, user_id) == SumRows(OwedBy(store, user_id))

\* C26: when user B settles an unsettled share of amount s on an expense
\* paid by another user A, B's total_owes and A's total_owed_to_user go
\* down by exactly s, and no other total_owes or total_owed_to_user changes
\* (A's total_owes and B's total_owed_to_user included).
C26_StepMovesOneDebt ==
    LET share_id == last'.args.share_id
        B == last'.args.user_id
        share == group_expense_shares[share_id]
        A == group_expenses[share.group_expense_id].payer_id
        s == share.share_amount
    IN  (/\ last'.op = "settle_expense_share"
         /\ last'.ret.bool
         /\ share_id \in DOMAIN group_expense_shares
         /\ share.is_settled = 0
         /\ A # B)
        => /\ TotalOwes(Store', B) = TotalOwes(Store, B) - s
           /\ TotalOwedToUser(Store', A) = TotalOwedToUser(Store, A) - s
           /\ \A u \in Users \ {B} : TotalOwes(Store', u) = TotalOwes(Store, u)
           /\ \A u \in Users \ {A} :
                  TotalOwedToUser(Store', u) = TotalOwedToUser(Store, u)

RECURSIVE SumOfShareAmounts(_)
SumOfShareAmounts(rows) ==
    IF rows = {} THEN 0
    ELSE LET row == CHOOSE r \in rows : TRUE
         IN  row.share_amount + SumOfShareAmounts(rows \ {row})

\* the unsettled shares that a user holds on expenses paid by someone else
UnsettledOnOthers(user_id) ==
    {i \in DOMAIN group_expense_shares :
        /\ group_expense_shares[i].user_id = user_id
        /\ group_expense_shares[i].is_settled = 0
        /\ group_expenses[group_expense_shares[i].group_expense_id].payer_id
               # user_id}

Range(seq) == {seq[k] : k \in DOMAIN seq}

\* C28: settle_multiple_expenses(user_id, expense_ids) changes only shares
\* that user_id owns on expenses of expense_ids and only expenses of
\* expense_ids; every share of another user and every expense outside
\* expense_ids is the same before and after, and no row appears or goes.
C28_StepBatchFrame ==
    last'.op = "settle_multiple_expenses" =>
        LET user_id == last'.args.user_id
            ids == Range(last'.args.expense_ids)
        IN  /\ DOMAIN group_expense_shares' = DOMAIN group_expense_shares
            /\ DOMAIN group_expenses' = DOMAIN group_expenses
            /\ sqlite_sequence' = sqlite_sequence
            /\ \A i \in DOMAIN group_expense_shares :
                   group_expense_shares'[i] # group_expense_shares[i]
                       => /\ group_expense_shares[i].user_id = user_id
                          /\ group_expense_shares[i].group_expense_id \in ids
            /\ \A e \in DOMAIN group_expenses :
                   group_expenses'[e] # group_expenses[e] => e \in ids

C28_BatchFrame == [][C28_StepBatchFrame]_vars

\* a batch has settled a share of its caller while another user's share of
\* the same expense and an expense outside the batch stay unsettled
C28_Witness ==
    /\ last.op = "settle_multiple_expenses"
    /\ last.ret.settled_count > 0
    /\ \E i, j \in DOMAIN group_expense_shares :
          /\ group_expense_shares[i].user_id = last.args.user_id
          /\ group_expense_shares[i].settled_at = Now
          /\ group_expense_shares[i].group_expense_id \in Range(last.args.expense_ids)
          /\ group_expense_shares[j].group_expense_id
                 = group_expense_shares[i].group_expense_id
          /\ group_expense_shares[j].user_id # last.args.user_id
          /\ group_expense_shares[j].is_settled = 0
    /\ \E e \in DOMAIN group_expenses :
          /\ e \notin Range(last.args.expense_ids)
          /\ group_expenses[e].is_settled = 0


\* the is_settled flags of a ledger: of its shares and of its expenses
SettlementFlags(store) ==
    [shares |-> [i \in DOMAIN store.group_expense_shares |->
                    store.group_expense_shares[i].is_settled],
     expenses |-> [e \in DOMAIN store.group_expenses |->
                    store.group_expenses[e].is_settled]]

\* C29: settle_expense_share called by the owner on a share that is settled
\* already returns True and changes no is_settled flag of any share or
\* expense; settling twice gives the flags of settling once.
C29_SettledAgain ==
    \A i \in DOMAIN group_expense_shares :
        LET user_id == group_expense_shares[i].user_id
            once == settle_expense_share(Store, i, user_id)
            twice == settle_expense_share(once.store, i, user_id)
        IN  /\ twice.ret.bool
            /\ SettlementFlags(twice.store) = SettlementFlags(once.store)
            /\ group_expense_shares[i].is_settled = 1
                   => /\ once.ret.bool
                      /\ SettlementFlags(once.store) = SettlementFlags(Store)

C29_StepSettledAgain ==
    LET share_id == last'.args.share_id
        user_id == last'.args.user_id
    IN  (/\ last'.op = "settle_expense_share"
         /\ share_id \in DOMAIN group_expense_shares
         /\ group_expense_shares[share_id].user_id = user_id
         /\ group_expense_shares[share_id].is_settled = 1)
        => /\ last'.ret.bool
           /\ SettlementFlags(Store') = SettlementFlags(Store)

C29_SettlingTwice == []C29_SettledAgain /\ [][C29_StepSettledAgain]_vars

\* the owner's call has returned True on a share that is settled, in a
\* ledger with an unsettled share of the same expense, with a settled
\* expense and with an unsettled one
C29_Witness ==
    /\ last.op = "settle_expense_share"
    /\ last.ret.bool
    /\ last.args.share_id \in DOMAIN group_expense_shares
    /\ group_expense_shares[last.args.share_id].is_settled = 1
    /\ group_expense_shares[last.args.share_id].user_id = last.args.user_id
    /\ \E j \in DOMAIN group_expense_shares :
          /\ group_expense_shares[j].group_expense_id
                 = group_expense_shares[last.args.share_id].group_expense_id
          /\ group_expense_shares[j].is_settled = 0
    /\ \E e \in DOMAIN group_expenses : group_expenses[e].is_settled = 1


\* C30: settle_expense_share returns True only if, in the committed state
\* right after the call, the share exists, belongs to the caller and is
\* settled, also when a delete_group_expense of the parent expense commits
\* between the call's ownership check and its UPDATE.
C30_StepReturnsTrue ==
    \A c \in Connections :
        (/\ conns[c].pc = "commit"
         /\ conns'[c].pc = "done"
         /\ conns'[c].ret)
        => /\ conns[c].share_id \in DOMAIN group_expense_shares'
           /\ group_expense_shares'[conns[c].share_id].user_id = conns[c].user_id
           /\ group_expense_shares'[conns[c].share_id].is_settled = 1

C30_TrueMeansSettled == [][C30_StepReturnsTrue]_vars

=============================================================================
